---- MODULE Spec2Model ----
(***************************************************************************)
(* Times Table Worksheet Generator (src/app.js).                           *)
(*                                                                         *)
(* The model covers the question generator, the print layout engine        *)
(* (calculateOptimalLayout), the PDF page renderer (renderPdfPage), the    *)
(* presentation layout engine (calculatePresentationLayout), and the page  *)
(* itself: the form and its validation, the Present and Download buttons,  *)
(* presentation mode with its debounced resize handler, and fullscreen.    *)
(* The functions are checked on their own inputs (SpecPrint, SpecPdf,      *)
(* SpecPresentation, SpecQuestion); the page is checked in scenarios that  *)
(* share its actions: one click on Present from every valid form           *)
(* (SpecGenerate), the form and the buttons (SpecSession), the overlay     *)
(* under resize events and the passing of time (SpecResize), the overlay   *)
(* and the Fullscreen API (SpecFullscreen).                                *)
(*                                                                         *)
(* JavaScript numbers are modelled as exact reals.  A real is a record     *)
(*   [kind |-> "rat", num, den]  the rational num/den (den > 0, reduced)   *)
(*   [kind |-> "pow", num, den]  the value                                 *)
(*        maxFontSize - fontRange * Math.pow(num/den, 0.7)                 *)
(* so that the power-law font curve is compared exactly, through           *)
(*   p = r^(7/10)  <=>  p^10 = r^7,                                        *)
(* with arbitrary-precision naturals (TLC's integers are 32 bits wide).    *)
(* On the inputs 1..99 the exact values round to the same tenths as the    *)
(* IEEE doubles of the program: the only ties, 242 / 8 * 10 = 302.5, are   *)
(* exact in binary and Math.round takes them up.                           *)
(***************************************************************************)
EXTENDS Integers, Sequences, FiniteSets, TLC

VARIABLES
    pc,                 \* the call that is pending, then the call that was made;
                        \* "app" while the page runs
    questionCount,      \* the questionCount / questions.length argument
    layout,             \* result of calculateOptimalLayout
    splitLines,         \* doc.splitTextToSize: lines per question, per page
    pdfPages,           \* the text painted on each PDF page
    innerHeight,        \* window.innerHeight
    presentationLayout, \* result of calculatePresentationLayout; on the page,
                        \* the --presentation-columns / -font-size applied
    selectedTables,     \* getSelectedTables(): checked tables, in DOM order
    includeDivision,    \* the includeDivision checkbox
    question,           \* result of generateQuestion
    answerText,         \* the answer-key line renderAnswers writes for it
    \* the page
    numQuestionsValue,  \* value of the #numQuestions slider, a string
    numQuestionsValueDisplay, \* text of #numQuestionsValue
    checkedLabels,      \* tables whose label carries checkbox-checked
    errors,             \* text of #numQuestionsError and of #tablesError
    currentQuestions,   \* the global currentQuestions
    questionsList,      \* items of #questionsList
    answersList,        \* items of #answersList
    calls,              \* what the last click handler called (history)
    \* presentation mode
    overlayDisplay,     \* style.display of #presentationOverlay
    presentationAnswersVisible,
    presentationList,   \* items of #presentationQuestionsList
    toggleAnswersText,  \* text of #toggleAnswersBtn
    bodyOverflow,       \* document.body.style.overflow
    listenersSetup,     \* data-listeners-setup of #closePresentationBtn
    presentationResizeHandler, \* TRUE while the handler is registered
    resizeTimeout,      \* resizeTimeout of the registered handler's closure:
                        \* the id of its last timer, 0 while undefined
    timers,             \* the pending setTimeout timers of the resize handlers
    sinceResize,        \* ms since the registered handler last ran (history)
    burst,              \* the burst of events the registered handler is in:
                        \* its events, the layout updates made by the
                        \* handler's timer and by other timers (history)
    \* fullscreen
    fullscreenEnabled,  \* document.fullscreenEnabled
    fullscreenElement,  \* TRUE while document.fullscreenElement is set
    fullscreenBtn,      \* style.display and textContent of #fullscreenBtn
    fullscreenPromises, \* the pending requestFullscreen / exitFullscreen
    \* listeners and the help tooltip
    listeners,          \* how often each listener is registered
    presentationKeyboardHandler, \* TRUE while the global holds a handler
    helpTooltip,        \* style.display and fade-out class of #helpTooltip,
                        \* and whether helpTooltipClickHandler is set
    helpTimers,         \* the pending 200 ms callbacks of hideHelpTooltip
    \* presets
    presetApplied,      \* tables whose label carries preset-applied
    presetTimers        \* the pending 400 ms callbacks of
                        \* triggerPresetAnimation

\* the variables of the single calls
callVars == <<questionCount, question, answerText>>
\* the form
presetVars == <<presetApplied, presetTimers>>
formVars == <<numQuestionsValue, numQuestionsValueDisplay, selectedTables,
              includeDivision, checkedLabels, presetVars>>
\* the worksheet
worksheetVars == <<errors, currentQuestions, questionsList, answersList, layout,
                   splitLines, pdfPages, calls>>
\* presentation mode
presentationVars == <<overlayDisplay, presentationAnswersVisible,
                      presentationList, toggleAnswersText, bodyOverflow,
                      listenersSetup, presentationLayout>>
\* the debounced resize handler
resizeVars == <<presentationResizeHandler, resizeTimeout, timers, sinceResize,
                burst>>
\* the viewport and fullscreen
fullscreenVars == <<fullscreenEnabled, fullscreenElement, fullscreenBtn,
                    fullscreenPromises>>
\* the registered listeners and the help tooltip
listenerVars == <<listeners, presentationKeyboardHandler, helpTooltip,
                  helpTimers>>
\* everything of the page that the single calls do not touch
pageVars == <<numQuestionsValue, numQuestionsValueDisplay, checkedLabels, errors,
              currentQuestions, questionsList, answersList, calls,
              overlayDisplay, presentationAnswersVisible, presentationList,
              toggleAnswersText, bodyOverflow, listenersSetup,
              presentationResizeHandler, resizeTimeout, timers, sinceResize,
              burst, fullscreenEnabled, fullscreenElement, fullscreenBtn,
              fullscreenPromises, listenerVars, presetVars>>

vars == <<pc, questionCount, layout, splitLines, pdfPages, innerHeight,
          presentationLayout, selectedTables, includeDivision, question,
          answerText, pageVars>>

NoValue == [kind |-> "none"]

\* the delay of the debounced resize handler, in ms
DebounceMs == 150
\* the steps in which the model lets that delay pass
TicksPerDebounce == 2
TickMs == DebounceMs \div TicksPerDebounce
\* the counts of the history variable burst stop at BurstCap
BurstCap == 2
NoBurst == [events |-> 0, calls |-> 0]
Min(a, b) == IF a < b THEN a ELSE b

\* the page before any listener of presentation mode is registered
NoListeners == [closeClick |-> 0, toggleClick |-> 0, fullscreenClick |-> 0,
                fullscreenLabel |-> 0, resize |-> 0, keydown |-> 0,
                helpClick |-> 0]
\* #helpTooltip starts hidden, no click-outside handler set
HiddenTooltip == [display |-> "none", fadeOut |-> FALSE, clickHandler |-> FALSE]

(***************************************************************************)
(* Arbitrary-precision naturals: little-endian sequences of limbs.         *)
(***************************************************************************)
LimbBase == 100 * 100

RECURSIVE BigNorm(_)
BigNorm(a) ==
    IF a = <<>> THEN <<>>
    ELSE IF a[Len(a)] = 0 THEN BigNorm(SubSeq(a, 1, Len(a) - 1))
    ELSE a

RECURSIVE BigMulCarry(_, _, _)
BigMulCarry(a, m, carry) ==
    IF a = <<>>
    THEN IF carry = 0 THEN <<>>
         ELSE <<carry % LimbBase>> \o BigMulCarry(<<>>, m, carry \div LimbBase)
    ELSE LET t == a[1] * m + carry
         IN  <<t % LimbBase>> \o BigMulCarry(Tail(a), m, t \div LimbBase)

\* a * m for a big natural a and a small natural m
BigMulSmall(a, m) == BigNorm(BigMulCarry(a, m, 0))

RECURSIVE BigMulPow(_, _, _)
\* a * m^e
BigMulPow(a, m, e) ==
    IF e = 0 THEN a ELSE BigMulPow(BigMulSmall(a, m), m, e - 1)

BigOne == <<1>>

RECURSIVE BigLeqFrom(_, _, _)
BigLeqFrom(a, b, i) ==
    IF i = 0 THEN TRUE
    ELSE IF a[i] < b[i] THEN TRUE
    ELSE IF a[i] > b[i] THEN FALSE
    ELSE BigLeqFrom(a, b, i - 1)

\* a <= b for normalised big naturals
BigLeq(a, b) ==
    IF Len(a) # Len(b) THEN Len(a) < Len(b) ELSE BigLeqFrom(a, b, Len(a))

(***************************************************************************)
(* Exact reals.                                                            *)
(***************************************************************************)
RECURSIVE Gcd(_, _)
Gcd(a, b) == IF b = 0 THEN a ELSE Gcd(b, a % b)

Abs(x) == IF x < 0 THEN -x ELSE x

Rat(n, d) ==
    LET g == Gcd(Abs(n), d)
    IN  [kind |-> "rat", num |-> n \div g, den |-> d \div g]

RatAdd(x, y) == Rat(x.num * y.den + y.num * x.den, x.den * y.den)
RatSub(x, y) == Rat(x.num * y.den - y.num * x.den, x.den * y.den)
RatMul(x, y) == Rat(x.num * y.num, x.den * y.den)
RatDiv(x, y) == Rat(x.num * y.den, x.den * y.num)
RatLeq(x, y) == x.num * y.den <= y.num * x.den
RatLess(x, y) == x.num * y.den < y.num * x.den

\* Math.ceil and Math.floor of a non-negative rational
MathCeil(x) == (x.num + x.den - 1) \div x.den
MathFloor(x) == x.num \div x.den

(***************************************************************************)
(* Print layout engine: calculateOptimalLayout.                            *)
(***************************************************************************)
pageHeight == 297
pageWidth == 210
margin == 15
titleY == margin + 8
titleHeight == 12
titleGap == 5
startY == titleY + titleHeight + titleGap
maxY == pageHeight - margin
usableHeight == maxY - startY
usableWidth == pageWidth - (margin * 2)

MaxQuestions == 99

minFontSize == Rat(95, 10)
maxFontSize == Rat(20, 1)
fontRange == RatSub(maxFontSize, minFontSize)
\* the exponent 0.7 of Math.pow(normalizedCount, 0.7), as PowNum / PowDen
PowNum == 7
PowDen == 10

\* x <= q for x of kind "pow" and q rational
PowLeqRat(x, q) ==
    LET t == RatDiv(RatSub(maxFontSize, q), fontRange)
    IN  IF t.num <= 0 THEN TRUE
        ELSE BigLeq(BigMulPow(BigMulPow(BigOne, t.num, PowDen), x.den, PowNum),
                    BigMulPow(BigMulPow(BigOne, x.num, PowNum), t.den, PowDen))

\* q <= x for x of kind "pow" and q rational
RatLeqPow(q, x) ==
    LET t == RatDiv(RatSub(maxFontSize, q), fontRange)
    IN  IF t.num < 0 THEN FALSE
        ELSE BigLeq(BigMulPow(BigMulPow(BigOne, x.num, PowNum), t.den, PowDen),
                    BigMulPow(BigMulPow(BigOne, t.num, PowDen), x.den, PowNum))

\* x <= y on reals
Leq(x, y) ==
    IF x.kind = "rat" /\ y.kind = "rat" THEN RatLeq(x, y)
    ELSE IF x.kind = "pow" /\ y.kind = "rat" THEN PowLeqRat(x, y)
    ELSE IF x.kind = "rat" /\ y.kind = "pow" THEN RatLeqPow(x, y)
    ELSE x.num * y.den >= y.num * x.den

MathMin(x, y) == IF Leq(y, x) THEN y ELSE x
MathMax(x, y) == IF Leq(x, y) THEN y ELSE x

RECURSIVE RoundSearch(_, _, _)
\* the greatest k in lo..hi with k - 1/2 <= 10 * x, given that lo is one
RoundSearch(x, lo, hi) ==
    IF lo >= hi THEN lo
    ELSE LET mid == (lo + hi + 1) \div 2
         IN  IF Leq(Rat(2 * mid - 1, 20), x)
             THEN RoundSearch(x, mid, hi)
             ELSE RoundSearch(x, lo, mid - 1)

\* Math.round(x * 10) / 10 for a non-negative real x
RoundOneDecimal(x) ==
    IF x.kind = "rat"
    THEN Rat(MathFloor(RatAdd(RatMul(x, Rat(10, 1)), Rat(1, 2))), 10)
    ELSE Rat(RoundSearch(x, 0, MathCeil(RatMul(maxFontSize, Rat(10, 1)))), 10)

\* columns with the 67-99 test lacking the n >= 90 alternative
columnsWithoutNinety(n) ==
    IF n <= 5 THEN 1
    ELSE IF n <= 20 THEN 2
    ELSE IF n <= 66 THEN 3
    ELSE IF n % 3 = 0 THEN 3
    ELSE 4

\* Step 1: column count
columns(n) ==
    IF n <= 5 THEN 1
    ELSE IF n <= 10 THEN 2
    ELSE IF n <= 20 THEN 2
    ELSE IF n <= 33 THEN 3
    ELSE IF n <= 50 THEN 3
    ELSE IF n <= 66 THEN 3
    ELSE IF n % 3 = 0 \/ n >= 90 THEN 3
    ELSE 4

\* Step 2: questions per column
questionsPerColumn(n) == MathCeil(Rat(n, columns(n)))

\* Step 3: line height that divides the usable height evenly
lineHeight(n) == RatDiv(Rat(usableHeight, 1), Rat(questionsPerColumn(n), 1))

\* Step 4: the power-law font curve
normalizedCount(n) == Rat(n - 1, MaxQuestions - 1)
fontSize(n) ==
    [kind |-> "pow", num |-> normalizedCount(n).num,
     den |-> normalizedCount(n).den]

\* Step 5: at most 85% of the line height
maxFontFromLineHeight(n) == RatMul(lineHeight(n), Rat(85, 100))
\* finalFontSize without the line-height clamp
finalFontSizeUnclamped(n) == fontSize(n)
finalFontSize(n) == MathMin(fontSize(n), maxFontFromLineHeight(n))

\* clampedFontSize without the lower bound
clampedFontSizeNoMinimum(n) == MathMin(maxFontSize, finalFontSize(n))

\* Step 6: absolute bounds
clampedFontSize(n) ==
    MathMax(minFontSize, MathMin(maxFontSize, finalFontSize(n)))

\* finalLineHeight with Math.min in place of Math.max
finalLineHeightMin(n) ==
    IF n <= 5 THEN MathMin(lineHeight(n), Rat(15, 1))
    ELSE IF n <= 10 THEN MathMin(lineHeight(n), Rat(12, 1))
    ELSE lineHeight(n)

\* Step 7: minimum line height for small counts
finalLineHeight(n) ==
    IF n <= 5 THEN MathMax(lineHeight(n), Rat(15, 1))
    ELSE IF n <= 10 THEN MathMax(lineHeight(n), Rat(12, 1))
    ELSE lineHeight(n)

calculateOptimalLayout(n) ==
    [columns |-> columns(n),
     fontSize |-> RoundOneDecimal(clampedFontSize(n)),
     lineHeight |-> RoundOneDecimal(finalLineHeight(n))]

(***************************************************************************)
(* PDF export: downloadWorksheetPdf and renderPdfPage.                     *)
(* doc.splitTextToSize belongs to the PDF library: the number of lines it  *)
(* returns for a question is an input (splitLines).  A painted line is a   *)
(* record of the question index (0-based), its column and row, the line of *)
(* the wrapped text and the (x, y) handed to doc.text.                     *)
(***************************************************************************)
columnGap == 5

columnWidth(lay) ==
    RatDiv(Rat(usableWidth - (lay.columns - 1) * 5, 1), Rat(lay.columns, 1))

columnX(lay, col) ==
    RatAdd(Rat(margin, 1),
           RatMul(Rat(col, 1), RatAdd(columnWidth(lay), Rat(columnGap, 1))))

\* the overflow guard: yPosition > maxY - lineSpacing
Overflows(y, lineSpacing) == RatLess(RatSub(Rat(maxY, 1), lineSpacing), y)

RECURSIVE DrawLinesFullAdvance(_, _, _, _, _, _, _)
\* lines.forEach(...) advancing a whole lineSpacing after a wrapped line
DrawLinesFullAdvance(idx, col, row, x, y, lineIndex, total) ==
    IF lineIndex >= total.lines THEN [texts |-> <<>>, y |-> y]
    ELSE IF Overflows(y, total.lineSpacing)
    THEN DrawLinesFullAdvance(idx, col, row, x, y, lineIndex + 1, total)
    ELSE LET yNext == IF lineIndex < total.lines - 1
                      THEN RatAdd(y, total.lineSpacing)
                      ELSE y
             rest == DrawLinesFullAdvance(idx, col, row, x, yNext,
                                          lineIndex + 1, total)
         IN  [texts |-> <<[question |-> idx, col |-> col, row |-> row,
                           line |-> lineIndex, x |-> x, y |-> y]>>
                        \o rest.texts,
              y |-> rest.y]

RECURSIVE DrawLines(_, _, _, _, _, _, _)
\* lines.forEach(...): the painted lines and the yPosition it leaves
DrawLines(idx, col, row, x, y, lineIndex, total) ==
    IF lineIndex >= total.lines THEN [texts |-> <<>>, y |-> y]
    ELSE IF Overflows(y, total.lineSpacing)
    THEN DrawLines(idx, col, row, x, y, lineIndex + 1, total)
    ELSE LET yNext == IF lineIndex < total.lines - 1
                      THEN RatAdd(y, RatMul(total.lineSpacing, Rat(6, 10)))
                      ELSE y
             rest == DrawLines(idx, col, row, x, yNext, lineIndex + 1, total)
         IN  [texts |-> <<[question |-> idx, col |-> col, row |-> row,
                           line |-> lineIndex, x |-> x, y |-> y]>>
                        \o rest.texts,
              y |-> rest.y]

RECURSIVE DrawColumn(_, _, _, _, _, _)
\* the inner loop over i of one column
DrawColumn(n, lay, lines, col, i, y) ==
    LET perColumn == MathCeil(Rat(n, lay.columns))
        questionIndex == col * perColumn + i
    IN  IF i >= perColumn THEN <<>>
        ELSE IF questionIndex >= n THEN <<>>
        ELSE IF Overflows(y, lay.lineHeight) THEN <<>>
        ELSE LET drawn == DrawLines(questionIndex, col, i, columnX(lay, col), y, 0,
                                    [lines |-> lines[questionIndex + 1],
                                     lineSpacing |-> lay.lineHeight])
             IN  drawn.texts
                 \o DrawColumn(n, lay, lines, col, i + 1,
                               RatAdd(drawn.y, lay.lineHeight))

RECURSIVE DrawColumns(_, _, _, _)
\* the outer loop over col
DrawColumns(n, lay, lines, col) ==
    IF col >= lay.columns THEN <<>>
    ELSE DrawColumn(n, lay, lines, col, 0, Rat(startY, 1))
         \o DrawColumns(n, lay, lines, col + 1)

renderPdfPage(n, lay, lines, showAnswers) ==
    [showAnswers |-> showAnswers, texts |-> DrawColumns(n, lay, lines, 0)]

downloadWorksheetPdf(n, split) ==
    LET lay == calculateOptimalLayout(n)
    IN  <<renderPdfPage(n, lay, split[1], FALSE),
          renderPdfPage(n, lay, split[2], TRUE)>>

\* The most lines splitTextToSize returns for one question in the model
MaxSplitLines == 2

OneLine(n) == [i \in 1..n |-> 1]
WrapAt(n, w, k) == [i \in 1..n |-> IF i = w THEN k ELSE 1]

\* The questions whose text may wrap in the model: the first and the last
WrapPositions(n) == {1, n}

\* What splitTextToSize may return for the two pages: nothing wraps, or one
\* question wraps on both pages, or only on the page with the blanks
SplitChoices(n) ==
    {<<OneLine(n), OneLine(n)>>}
    \cup {<<WrapAt(n, w, k), WrapAt(n, w, k)>> :
             w \in WrapPositions(n), k \in 2..MaxSplitLines}
    \cup {<<WrapAt(n, w, k), OneLine(n)>> :
             w \in WrapPositions(n), k \in 2..MaxSplitLines}

(***************************************************************************)
(* Presentation layout engine: calculatePresentationLayout.                *)
(***************************************************************************)
PRESENTATION_MIN_FONT_PX == 18
PRESENTATION_MAX_FONT_PX == 44

\* column tiers that follow the font tiers (3 up to 12, 4 up to 40, then 5)
updatePresentationColumnsByFontTier(n) ==
    IF n <= 12 THEN 3
    ELSE IF n <= 40 THEN 4
    ELSE 5

updatePresentationColumns(n) ==
    IF n >= 1 /\ n <= 9 THEN 3
    ELSE IF n >= 10 /\ n <= 20 THEN 4
    ELSE IF n >= 21 /\ n <= 40 THEN 5
    ELSE 5

\* font tiers with the first threshold written n < 12
presentationFontTierStrict(n) ==
    IF n < 12 THEN 40
    ELSE IF n <= 24 THEN 32
    ELSE IF n <= 40 THEN 26
    ELSE IF n <= 60 THEN 22
    ELSE 18

\* Font size tiers based on question count
presentationFontTier(n) ==
    IF n <= 12 THEN 40
    ELSE IF n <= 24 THEN 32
    ELSE IF n <= 40 THEN 26
    ELSE IF n <= 60 THEN 22
    ELSE 18

\* Math.round of a non-negative rational
MathRound(x) == MathFloor(RatAdd(x, Rat(1, 2)))

\* the viewport ceiling taken as a twelfth of the height
maxAllowedByTwelfth(height) ==
    MathMin(Rat(PRESENTATION_MAX_FONT_PX, 1), Rat(height, 12))

maxAllowed(height) ==
    MathMin(Rat(PRESENTATION_MAX_FONT_PX, 1), Rat(height, 18))

\* the clamp with the viewport ceiling applied last
clampPresentationFontCeilingLast(n, height) ==
    MathMin(MathMax(Rat(PRESENTATION_MIN_FONT_PX, 1),
                    Rat(presentationFontTier(n), 1)),
            maxAllowed(height))

\* Math.max(MIN, Math.min(fontSize, maxAllowed))
clampPresentationFont(n, height) ==
    MathMax(Rat(PRESENTATION_MIN_FONT_PX, 1),
            MathMin(Rat(presentationFontTier(n), 1), maxAllowed(height)))

calculatePresentationLayout(n, height) ==
    [columns |-> updatePresentationColumns(n),
     fontSizePx |-> MathRound(clampPresentationFont(n, height))]

(***************************************************************************)
(* Question generator: generateQuestion, and the answer-key line that      *)
(* renderAnswers writes.  A JavaScript string is a sequence of one-        *)
(* character strings; a Math.random() draw is a rational in [0, 1).        *)
(***************************************************************************)
DigitChars == <<"0", "1", "2", "3", "4", "5", "6", "7", "8", "9">>

RECURSIVE NumberToString(_)
\* the decimal text a template literal gives a non-negative integer
NumberToString(n) ==
    IF n < 10 THEN <<DigitChars[n + 1]>>
    ELSE NumberToString(n \div 10) \o <<DigitChars[(n % 10) + 1]>>

Blank == <<"_", "_", "_", "_", "_", "_">>

RECURSIVE IndexOfFrom(_, _, _)
\* the first index >= i at which pattern occurs in text, or 0
IndexOfFrom(text, pattern, i) ==
    IF i + Len(pattern) - 1 > Len(text) THEN 0
    ELSE IF SubSeq(text, i, i + Len(pattern) - 1) = pattern THEN i
    ELSE IndexOfFrom(text, pattern, i + 1)

\* String.prototype.replace with a string pattern: the first occurrence only
StringReplace(text, pattern, replacement) ==
    LET i == IndexOfFrom(text, pattern, 1)
    IN  IF i = 0 THEN text
        ELSE SubSeq(text, 1, i - 1) \o replacement
             \o SubSeq(text, i + Len(pattern), Len(text))

\* array[Math.floor(Math.random() * array.length)]
pickRandom(array, r) == array[MathFloor(RatMul(r, Rat(Len(array), 1))) + 1]

\* Math.floor(Math.random() * (max - min + 1)) + min
randomInt(min, max, r) == MathFloor(RatMul(r, Rat(max - min + 1, 1))) + min

\* the division question with the dividend in place of the answer
divisionQuestionAnswersProduct(base, other) ==
    [type |-> "division", base |-> base, other |-> other,
     product |-> base * other,
     questionText |-> NumberToString(base * other) \o <<" ", "÷", " ">>
                      \o NumberToString(base) \o <<" ", "=", " ">> \o Blank,
     answer |-> base * other]

divisionQuestion(base, other) ==
    LET product == base * other
    IN  [type |-> "division", base |-> base, other |-> other,
         product |-> product,
         questionText |-> NumberToString(product) \o <<" ", "÷", " ">>
                          \o NumberToString(base) \o <<" ", "=", " ">> \o Blank,
         answer |-> other]

multiplicationQuestion(base, other) ==
    [type |-> "multiplication", base |-> base, other |-> other,
     questionText |-> NumberToString(base) \o <<" ", "×", " ">>
                      \o NumberToString(other) \o <<" ", "=", " ">> \o Blank,
     answer |-> base * other]

\* rBase, rOther and rKind are the three Math.random() draws; rKind is read
\* only when includeDivision is set
generateQuestion(tables, division, rBase, rOther, rKind) ==
    LET base == pickRandom(tables, rBase)
        other == randomInt(1, 12, rOther)
        isDivision == division /\ RatLess(rKind, Rat(1, 2))
    IN  IF isDivision THEN divisionQuestion(base, other)
        ELSE multiplicationQuestion(base, other)

\* renderAnswers: questionText.replace('______', question.answer)
answerLine(q) == StringReplace(q.questionText, Blank, NumberToString(q.answer))

(***************************************************************************)
(* Specifications of the print layout engine and of the PDF export.        *)
(***************************************************************************)
\* the page's variables while a single call is checked
PageNotLoaded ==
    /\ numQuestionsValue = <<>>
    /\ numQuestionsValueDisplay = <<>>
    /\ checkedLabels = {}
    /\ errors = [numQuestionsError |-> "", tablesError |-> ""]
    /\ currentQuestions = <<>>
    /\ questionsList = <<>>
    /\ answersList = <<>>
    /\ calls = NoValue
    /\ overlayDisplay = "none"
    /\ presentationAnswersVisible = FALSE
    /\ presentationList = <<>>
    /\ toggleAnswersText = "Show answers"
    /\ bodyOverflow = ""
    /\ listenersSetup = FALSE
    /\ presentationResizeHandler = FALSE
    /\ resizeTimeout = 0
    /\ timers = {}
    /\ sinceResize = DebounceMs
    /\ burst = NoBurst
    /\ fullscreenEnabled = FALSE
    /\ fullscreenElement = FALSE
    /\ fullscreenBtn = [display |-> "", textContent |-> "Go full screen"]
    /\ fullscreenPromises = {}
    /\ listeners = NoListeners
    /\ presentationKeyboardHandler = FALSE
    /\ helpTooltip = HiddenTooltip
    /\ helpTimers = 0
    /\ presetApplied = {}
    /\ presetTimers = 0

InitPrint ==
    /\ PageNotLoaded
    /\ pc = "print"
    /\ questionCount \in 1..MaxQuestions
    /\ layout = NoValue
    /\ splitLines = NoValue
    /\ pdfPages = <<>>
    /\ innerHeight = 0
    /\ presentationLayout = NoValue
    /\ selectedTables = <<>>
    /\ includeDivision = FALSE
    /\ question = NoValue
    /\ answerText = <<>>

CalculateOptimalLayout ==
    /\ pc = "print"
    /\ layout' = calculateOptimalLayout(questionCount)
    /\ pc' = "layout"
    /\ UNCHANGED pageVars
    /\ UNCHANGED <<questionCount, splitLines, pdfPages, innerHeight,
                   presentationLayout, selectedTables, includeDivision,
                   question, answerText>>

DownloadWorksheetPdf ==
    /\ pc = "print"
    /\ LET lay == calculateOptimalLayout(questionCount)
       IN  /\ layout' = lay
           /\ \E split \in SplitChoices(questionCount) :
                /\ splitLines' = split
                /\ pdfPages' = <<renderPdfPage(questionCount, lay, split[1], FALSE),
                                 renderPdfPage(questionCount, lay, split[2], TRUE)>>
    /\ pc' = "pdf"
    /\ UNCHANGED pageVars
    /\ UNCHANGED <<questionCount, innerHeight, presentationLayout,
                   selectedTables, includeDivision, question, answerText>>

SpecPrint == InitPrint /\ [][CalculateOptimalLayout]_vars
SpecPdf == InitPrint /\ [][DownloadWorksheetPdf]_vars

(***************************************************************************)
(* Properties of the print layout engine (SpecPrint).                      *)
(***************************************************************************)
LayoutDone == pc = "layout"

\* ceil(n / c) on integers
CeilDiv(n, c) == (n + c - 1) \div c

\* The column count the specification documents for n questions
DocumentedColumns(n) ==
    IF n <= 5 THEN 1
    ELSE IF n <= 20 THEN 2
    ELSE IF n <= 66 THEN 3
    ELSE IF n % 3 = 0 \/ n >= 90 THEN 3
    ELSE 4

ValidPlan(lay) ==
    /\ DOMAIN lay = {"columns", "fontSize", "lineHeight"}
    /\ lay.columns \in {1, 2, 3, 4}
    /\ lay.fontSize.kind = "rat"
    /\ RatLeq(Rat(95, 10), lay.fontSize)
    /\ RatLeq(lay.fontSize, Rat(20, 1))
    /\ lay.lineHeight.kind = "rat"
    /\ RatLess(Rat(0, 1), lay.lineHeight)

\* C2: for every questionCount in 1..99 calculateOptimalLayout is total and
\* returns a valid plan: columns in {1,2,3,4}, the rounded fontSize within
\* [9.5, 20], and lineHeight > 0.  (Before the call the function has a valid
\* value at the input; after it the stored plan is valid.)
C2_ValidPlan ==
    /\ pc = "print" => ValidPlan(calculateOptimalLayout(questionCount))
    /\ LayoutDone => ValidPlan(layout)

\* C2 witness: the plan of 99 questions, whose font size sits on the lower
\* bound 9.5 although 85% of its line height is smaller.
C2_Witness ==
    /\ LayoutDone
    /\ questionCount = 99
    /\ layout.fontSize = Rat(95, 10)
    /\ RatLess(RatMul(layout.lineHeight, Rat(85, 100)), Rat(95, 10))

\* C3: for every questionCount in 1..99 the returned lineHeight fits the
\* page without overflow: questionsPerColumn * lineHeight <= usableHeight,
\* with questionsPerColumn = ceil(n / columns) and usableHeight = 242.
C3_RowsFitUsableHeight ==
    LayoutDone =>
        RatLeq(RatMul(Rat(CeilDiv(questionCount, layout.columns), 1),
                      layout.lineHeight),
               Rat(242, 1))

\* The row height before rounding: usableHeight / ceil(n / columns)
RowHeight(n, cols) == RatDiv(Rat(242, 1), Rat(CeilDiv(n, cols), 1))

FloorConstant(n) == IF n <= 5 THEN Rat(15, 1) ELSE Rat(12, 1)

\* C6 (as claimed): for n <= 5 the floor 15 and for 6 <= n <= 10 the floor 12
\* is larger than the organically computed usableHeight / questionsPerColumn,
\* so the returned lineHeight is the floor value for those n.
C6_FloorIsEffective ==
    (LayoutDone /\ questionCount <= 10) =>
        /\ RatLess(RowHeight(questionCount, layout.columns),
                   FloorConstant(questionCount))
        /\ layout.lineHeight = FloorConstant(questionCount)

\* C6 (amended): for n <= 10 the floor never takes effect: the floor constant
\* (15 for n <= 5, 12 for 6..10) is smaller than the organically computed
\* usableHeight / questionsPerColumn, which is at least 48.4, so the returned
\* lineHeight is the organic value rounded to one decimal and is above the
\* floor.
C6_FloorNeverBinds ==
    (LayoutDone /\ questionCount <= 10) =>
        /\ RatLess(FloorConstant(questionCount),
                   RowHeight(questionCount, layout.columns))
        /\ RatLeq(Rat(484, 10), RowHeight(questionCount, layout.columns))
        /\ layout.lineHeight =
               RoundOneDecimal(RowHeight(questionCount, layout.columns))
        /\ RatLess(FloorConstant(questionCount), layout.lineHeight)

\* C6 witness: 10 questions in 2 columns of 5 rows get lineHeight 48.4, the
\* smallest of the small counts, still above the floor 12.
C6_Witness ==
    /\ LayoutDone
    /\ questionCount = 10
    /\ layout.lineHeight = Rat(484, 10)
    /\ RatLess(Rat(12, 1), layout.lineHeight)

\* C19: the fontSize returned by calculateOptimalLayout is non-increasing in
\* questionCount over 1..99: for all 1 <= m < n <= 99, fontSize(n) <=
\* fontSize(m).  The code breaks it: the font is capped by 0.8 x the row
\* height, and the row count is not monotone in n (66 questions: 3 columns of
\* 22 rows, 9.5; 67 questions: 4 columns of 17 rows, 11.4).
C19_FontNonIncreasing ==
    LayoutDone =>
        \A m \in 1..(questionCount - 1) :
            RatLeq(layout.fontSize, calculateOptimalLayout(m).fontSize)

(***************************************************************************)
(* Properties of the PDF export (SpecPdf).                                 *)
(***************************************************************************)
PdfDone == pc = "pdf"

\* every question's text fits on one line, on both pages
NothingWraps ==
    \A p \in 1..2 : \A i \in 1..questionCount : splitLines[p][i] = 1

\* C4: for every n in 1..99 and n questions whose texts each fit on one line,
\* each PDF page paints every question i in 0..n-1 exactly once, at column
\* i div questionsPerColumn and row i mod questionsPerColumn, every column
\* being < columns; the overflow guard leaves no question unpainted.
C4_EveryQuestionPainted ==
    (PdfDone /\ NothingWraps) =>
        \A p \in 1..2 :
            LET texts == pdfPages[p].texts
                perColumn == CeilDiv(questionCount, layout.columns)
            IN  \A i \in 0..(questionCount - 1) :
                    /\ Cardinality({k \in 1..Len(texts) :
                                       texts[k].question = i}) = 1
                    /\ \A k \in 1..Len(texts) :
                          texts[k].question = i =>
                              /\ texts[k].col = i \div perColumn
                              /\ texts[k].row = i % perColumn
                              /\ texts[k].col < layout.columns

\* the painted first lines of question i on page p
FirstLines(p, i) ==
    {k \in 1..Len(pdfPages[p].texts) :
        pdfPages[p].texts[k].question = i /\ pdfPages[p].texts[k].line = 0}

\* C14: a PDF export paints exactly two pages from the same question
\* sequence and the same calculateOptimalLayout result, page 1 with blanks
\* and page 2 with answers, and every question is placed at the same column
\* and row (same x and y) on both pages.  The code breaks the last part when
\* splitTextToSize wraps the text with the blank but not the shorter text
\* with the answer: the questions below it in the column move down by 60% of
\* a line height on page 1 only, and the last one can fall to the overflow
\* guard there.
C14_SamePlacementOnBothPages ==
    PdfDone =>
        /\ Len(pdfPages) = 2
        /\ pdfPages[1].showAnswers = FALSE
        /\ pdfPages[2].showAnswers = TRUE
        /\ layout = calculateOptimalLayout(questionCount)
        /\ \A i \in 0..(questionCount - 1) :
              /\ (FirstLines(1, i) = {}) <=> (FirstLines(2, i) = {})
              /\ \A a \in FirstLines(1, i) : \A b \in FirstLines(2, i) :
                    /\ pdfPages[1].texts[a].col = pdfPages[2].texts[b].col
                    /\ pdfPages[1].texts[a].row = pdfPages[2].texts[b].row
                    /\ pdfPages[1].texts[a].x = pdfPages[2].texts[b].x
                    /\ pdfPages[1].texts[a].y = pdfPages[2].texts[b].y

\* the painted lines of a page that belong to a question that wraps
WrappedTexts(p) ==
    {a \in 1..Len(pdfPages[p].texts) :
        splitLines[p][pdfPages[p].texts[a].question + 1] > 1}

\* C18: in the PDF page renderer a question whose text wraps onto k lines
\* advances the y position by 60% of the line height for each of its k - 1
\* continuation lines and then by one full line height to the next question:
\* its line j is painted 0.6 * j line heights below its first line, the next
\* question of the same column is painted 0.6 * (k - 1) + 1 line heights
\* below its first line, and so every continuation line is strictly above
\* the next question of the column.
C18_WrappedAdvance ==
    PdfDone =>
        \A p \in 1..2 :
            LET texts == pdfPages[p].texts
                L == layout.lineHeight
            IN  \A a \in WrappedTexts(p) : \A b \in 1..Len(texts) :
                    LET k == splitLines[p][texts[a].question + 1]
                    IN  /\ (texts[b].question = texts[a].question
                             /\ texts[b].line = 0) =>
                                texts[a].y =
                                    RatAdd(texts[b].y,
                                           RatMul(Rat(6 * texts[a].line, 10), L))
                        /\ (texts[b].question = texts[a].question + 1
                             /\ texts[b].col = texts[a].col) =>
                                /\ RatLess(texts[a].y, texts[b].y)
                                /\ texts[a].line = 0 =>
                                       texts[b].y =
                                           RatAdd(texts[a].y,
                                                  RatMul(Rat(6 * (k - 1) + 10, 10), L))

\* C18 witness: the first of 20 questions (2 columns of 10 rows, line height
\* 24.2) wraps onto 2 lines on the page with the blanks; its continuation
\* line is painted at 40 + 14.52 and the second question at 40 + 38.72.
C18_Witness ==
    /\ PdfDone
    /\ questionCount = 20
    /\ splitLines[1][1] = 2
    /\ \E a, b \in 1..Len(pdfPages[1].texts) :
          /\ pdfPages[1].texts[a].question = 0
          /\ pdfPages[1].texts[a].line = 1
          /\ pdfPages[1].texts[a].y = Rat(5452, 100)
          /\ pdfPages[1].texts[b].question = 1
          /\ pdfPages[1].texts[b].line = 0
          /\ pdfPages[1].texts[b].y = Rat(7872, 100)

(***************************************************************************)
(* Specification of the presentation layout engine.                        *)
(***************************************************************************)
\* The largest question count and viewport height tried
MaxPresentationCount == 100
MaxInnerHeight == 750

InitPresentation ==
    /\ PageNotLoaded
    /\ pc = "present"
    /\ questionCount \in 1..MaxPresentationCount
    /\ innerHeight \in 1..MaxInnerHeight
    /\ layout = NoValue
    /\ splitLines = NoValue
    /\ pdfPages = <<>>
    /\ presentationLayout = NoValue
    /\ selectedTables = <<>>
    /\ includeDivision = FALSE
    /\ question = NoValue
    /\ answerText = <<>>

CalculatePresentationLayout ==
    /\ pc = "present"
    /\ presentationLayout' = calculatePresentationLayout(questionCount, innerHeight)
    /\ pc' = "presentation"
    /\ UNCHANGED pageVars
    /\ UNCHANGED <<questionCount, layout, splitLines, pdfPages, innerHeight,
                   selectedTables, includeDivision, question, answerText>>

SpecPresentation == InitPresentation /\ [][CalculatePresentationLayout]_vars

PresentationDone == pc = "presentation"

ClaimedClamp(base, height) ==
    LET ceiling == IF 44 * 18 <= height THEN Rat(44, 1) ELSE Rat(height, 18)
        capped == IF RatLeq(Rat(base, 1), ceiling) THEN Rat(base, 1) ELSE ceiling
    IN  IF RatLeq(capped, Rat(18, 1)) THEN Rat(18, 1) ELSE capped

\* the base font of the documented tiers
ClaimedBaseFont(n) ==
    IF n <= 12 THEN 40
    ELSE IF n <= 24 THEN 32
    ELSE IF n <= 40 THEN 26
    ELSE IF n <= 60 THEN 22
    ELSE 18

\* C9 (as claimed): for every questionCount >= 1 and every positive viewport
\* height the returned font size equals clamp(baseFont, 18, min(44,
\* height / 18)) with the minimum applied last, so it is never below 18.
C9_FontEqualsClamp ==
    PresentationDone =>
        /\ Rat(presentationLayout.fontSizePx, 1) =
               ClaimedClamp(ClaimedBaseFont(questionCount), innerHeight)
        /\ presentationLayout.fontSizePx >= 18

\* C9 (amended): the returned font size equals that clamp rounded to the
\* nearest whole pixel (Math.round); it is never below 18, and when
\* height / 18 < 18 the minimum wins over the viewport ceiling and the font
\* is 18 (count 12 with height 100 gives 18).
C9_FontEqualsRoundedClamp ==
    PresentationDone =>
        LET exact == ClaimedClamp(ClaimedBaseFont(questionCount), innerHeight)
            px == presentationLayout.fontSizePx
        IN  /\ RatLeq(Rat(2 * px - 1, 2), exact)
            /\ RatLess(exact, Rat(2 * px + 1, 2))
            /\ px >= 18
            /\ (innerHeight < 18 * 18 => px = 18)
            /\ (questionCount = 12 /\ innerHeight = 100 => px = 18)

\* C9 witness: 12 questions on a 100 px viewport: the ceiling 100 / 18 is
\* below the minimum and the font is 18.
C9_Witness ==
    /\ PresentationDone
    /\ questionCount = 12
    /\ innerHeight = 100
    /\ RatLess(Rat(innerHeight, 18), Rat(18, 1))
    /\ presentationLayout.fontSizePx = 18

\* C27 (as claimed): for every questionCount >= 1 and every viewport height h
\* with h / 18 >= 18, the returned fontSizePx (after Math.round) does not
\* exceed the viewport-derived ceiling min(44, h / 18).
C27_FontWithinCeiling ==
    (PresentationDone /\ innerHeight >= 18 * 18) =>
        /\ presentationLayout.fontSizePx <= PRESENTATION_MAX_FONT_PX
        /\ 18 * presentationLayout.fontSizePx <= innerHeight

\* C27 (amended): for those counts and heights the returned fontSizePx is at
\* most 44 and exceeds the ceiling h / 18 by at most half a pixel, the
\* rounding of Math.round: 12 questions on a 700 px viewport get 39 px, over
\* the ceiling of 38.89.
C27_FontWithinRoundedCeiling ==
    (PresentationDone /\ innerHeight >= 18 * 18) =>
        /\ presentationLayout.fontSizePx <= PRESENTATION_MAX_FONT_PX
        /\ 18 * (2 * presentationLayout.fontSizePx - 1) <= 2 * innerHeight
        /\ (questionCount = 12 /\ innerHeight = 700 =>
               presentationLayout.fontSizePx = 39)

\* C27 witness: 12 questions on a 700 px viewport: the ceiling 700 / 18 is
\* between 18 and the 40 px tier, and the rounded font 39 is above it.
C27_Witness ==
    /\ PresentationDone
    /\ questionCount = 12
    /\ innerHeight = 700
    /\ presentationLayout.fontSizePx = 39
    /\ 18 * presentationLayout.fontSizePx > innerHeight

\* the table of the presentation constants' doc comment (app.js:781-786)
DocumentedPresentationTier(n) ==
    IF n <= 12 THEN [columns |-> 3, fontSizePx |-> 40]
    ELSE IF n <= 24 THEN [columns |-> 4, fontSizePx |-> 32]
    ELSE IF n <= 40 THEN [columns |-> 4, fontSizePx |-> 26]
    ELSE IF n <= 60 THEN [columns |-> 5, fontSizePx |-> 22]
    ELSE [columns |-> 5, fontSizePx |-> 18]

\* C20: the column count and the font tier of calculatePresentationLayout
\* follow the table of the constants' doc comment, changing at the same
\* thresholds: <= 12 questions give 3 columns and 40 px, 13-24 give 4 and 32,
\* 25-40 give 4 and 26, 41-60 give 5 and 22, more give 5 and 18 (the font
\* before viewport clamping, so on a viewport of 720 px or more it is the
\* returned font).  The code's columns change at 10 and 21 instead: 10
\* questions get 4 columns, not 3.
C20_DocumentedTiers ==
    PresentationDone =>
        /\ presentationLayout.columns =
               DocumentedPresentationTier(questionCount).columns
        /\ presentationFontTier(questionCount) =
               DocumentedPresentationTier(questionCount).fontSizePx
        /\ (innerHeight >= 18 * 40 =>
               presentationLayout.fontSizePx =
                   DocumentedPresentationTier(questionCount).fontSizePx)

(***************************************************************************)
(* Specification of the question generator.                                *)
(***************************************************************************)
\* the times tables 1..TableCount of createTimesTableCheckboxes
TableCount == 20
\* the most tables selected at once, and the resolution of Math.random()
MaxSelectedTables == 2
RandomSteps == 12
\* the resolution of the draw that decides between the two kinds
KindSteps == 2

RandomDraws == {Rat(k, RandomSteps) : k \in 0..(RandomSteps - 1)}
KindDraws == {Rat(k, KindSteps) : k \in 0..(KindSteps - 1)}

RECURSIVE TableSets(_)
\* the sets of at most k tables
TableSets(k) ==
    IF k = 0 THEN {{}}
    ELSE TableSets(k - 1)
         \cup {S \cup {t} : S \in TableSets(k - 1), t \in 1..TableCount}

RECURSIVE InDomOrder(_)
\* the checked tables as getSelectedTables returns them: ascending
InDomOrder(S) ==
    IF S = {} THEN <<>>
    ELSE LET least == CHOOSE t \in S : \A u \in S : t <= u
         IN  <<least>> \o InDomOrder(S \ {least})

InitQuestion ==
    /\ PageNotLoaded
    /\ pc = "generate"
    /\ selectedTables \in {InDomOrder(S) : S \in TableSets(MaxSelectedTables) \ {{}}}
    /\ includeDivision \in BOOLEAN
    /\ questionCount = 0
    /\ innerHeight = 0
    /\ layout = NoValue
    /\ splitLines = NoValue
    /\ pdfPages = <<>>
    /\ presentationLayout = NoValue
    /\ question = NoValue
    /\ answerText = <<>>

GenerateQuestion ==
    /\ pc = "generate"
    /\ \E rBase \in RandomDraws, rOther \in RandomDraws :
         \E rKind \in (IF includeDivision THEN KindDraws ELSE {Rat(0, 1)}) :
            LET q == generateQuestion(selectedTables, includeDivision,
                                      rBase, rOther, rKind)
            IN  /\ question' = q
                /\ answerText' = answerLine(q)
    /\ pc' = "question"
    /\ UNCHANGED pageVars
    /\ UNCHANGED <<questionCount, layout, splitLines, pdfPages, innerHeight,
                   presentationLayout, selectedTables, includeDivision>>

SpecQuestion == InitQuestion /\ [][GenerateQuestion]_vars

(***************************************************************************)
(* The page: the form, validateInputs, generateWorksheet, handleGenerate   *)
(* and handleDownload.  Math.random() is a stream: one handler call reads  *)
(* the values of an additive sequence, started at a seed that the call     *)
(* draws.                                                                  *)
(***************************************************************************)
\* the number of seeds a handler call draws from
RandomSeeds == 2

\* the j-th value (from 0) that Math.random() returns in a call with a
\* seed: the sequence x -> (x + 37) mod 64, read as a draw in [0, 1)
RandomAt(seed, j) == Rat((seed + 37 * j) % 64, 64)

RECURSIVE LeadingDigits(_)
\* the longest prefix of decimal digits
LeadingDigits(text) ==
    IF text = <<>> THEN <<>>
    ELSE IF \E d \in 1..10 : DigitChars[d] = text[1]
    THEN <<text[1]>> \o LeadingDigits(Tail(text))
    ELSE <<>>

RECURSIVE DigitsToNumber(_)
DigitsToNumber(digits) ==
    IF digits = <<>> THEN 0
    ELSE 10 * DigitsToNumber(SubSeq(digits, 1, Len(digits) - 1))
         + (CHOOSE d \in 0..9 : DigitChars[d + 1] = digits[Len(digits)])

RECURSIVE TrimStart(_)
TrimStart(text) ==
    IF text # <<>> /\ text[1] = " " THEN TrimStart(Tail(text)) ELSE text

\* parseInt(text, 10): leading blanks and a sign are skipped, the digits up
\* to the first other character are read, NaN when there is none
parseInt(text) ==
    LET trimmed == TrimStart(text)
        signed == trimmed # <<>> /\ trimmed[1] \in {"-", "+"}
        digits == LeadingDigits(IF signed THEN Tail(trimmed) ELSE trimmed)
    IN  IF digits = <<>> THEN [isNaN |-> TRUE, value |-> 0]
        ELSE [isNaN |-> FALSE,
              value |-> IF signed /\ trimmed[1] = "-"
                        THEN 0 - DigitsToNumber(digits)
                        ELSE DigitsToNumber(digits)]

\* the count test without its upper limit
numQuestionsInvalidNoUpper(value) ==
    LET numQuestions == parseInt(value)
    IN  numQuestions.isNaN \/ numQuestions.value < 1

\* the count test of validateInputs
numQuestionsInvalid(value) ==
    LET numQuestions == parseInt(value)
    IN  numQuestions.isNaN \/ numQuestions.value < 1 \/ numQuestions.value > 99

\* validateInputs: the error texts it leaves and the value it returns
validateInputs(value, tables) ==
    [errors |->
        [numQuestionsError |->
            IF numQuestionsInvalid(value)
            THEN "Please enter a number between 1 and 99" ELSE "",
         tablesError |->
            IF Len(tables) = 0
            THEN "Please select at least one times table" ELSE ""],
     isValid |-> ~numQuestionsInvalid(value) /\ Len(tables) # 0]

\* the loop running while i <= numQuestions
generateQuestionsInclusive(numQuestions, tables, division, seed) ==
    LET draws == IF division THEN 3 ELSE 2
    IN  [i \in 1..(numQuestions + 1) |->
            generateQuestion(tables, division,
                             RandomAt(seed, draws * (i - 1)),
                             RandomAt(seed, draws * (i - 1) + 1),
                             RandomAt(seed, draws * (i - 1) + 2))]

\* the loop that pushes numQuestions questions; a question reads two values
\* of Math.random(), and a third when includeDivision is set
generateQuestions(numQuestions, tables, division, seed) ==
    LET draws == IF division THEN 3 ELSE 2
    IN  [i \in 1..numQuestions |->
            generateQuestion(tables, division,
                             RandomAt(seed, draws * (i - 1)),
                             RandomAt(seed, draws * (i - 1) + 1),
                             RandomAt(seed, draws * (i - 1) + 2))]

\* the questions pushed onto what currentQuestions held before
pushQuestions(previous, generated) == previous \o generated

\* currentQuestions = []; then every generated question is pushed
resetAndPushQuestions(previous, generated) == generated

\* renderWorksheet and renderAnswers: the list items
renderWorksheet(questions) ==
    [i \in 1..Len(questions) |-> questions[i].questionText]
renderAnswers(questions) ==
    [i \in 1..Len(questions) |-> answerLine(questions[i])]

\* renderPresentationWorksheet: the text of each item and its answer span
renderPresentationWorksheet(questions, showAnswers) ==
    [i \in 1..Len(questions) |->
        [text |-> NumberToString(i) \o <<")", " ">>
                  \o StringReplace(questions[i].questionText, Blank, <<>>),
         answer |-> IF showAnswers THEN NumberToString(questions[i].answer)
                    ELSE <<>>]]

\* updatePresentationLayout with its visibility test inverted
updatePresentationLayoutWhenHidden(display, questions, height, applied) ==
    IF display # "none" THEN applied
    ELSE IF Len(questions) = 0 THEN applied
    ELSE calculatePresentationLayout(Len(questions), height)

\* updatePresentationLayout: the layout applied to the overlay afterwards
updatePresentationLayout(display, questions, height, applied) ==
    IF display = "none" THEN applied
    ELSE IF Len(questions) = 0 THEN applied
    ELSE calculatePresentationLayout(Len(questions), height)

\* a timer id that is not in use
FreshTimer == CHOOSE i \in 1..(Cardinality(timers) + 2) :
                 /\ i # resizeTimeout
                 /\ \A t \in timers : t.id # i

\* the button text that always invites to show the answers
updateAnswersToggleButtonShowOnly(visible) == "Show answers"

\* updateAnswersToggleButton: the text of #toggleAnswersBtn
updateAnswersToggleButton(visible) ==
    IF visible THEN "Hide answers" ELSE "Show answers"

\* addEventListener with a function the target already has for the event is
\* ignored; with a new closure it adds one more listener
AddSameListener(n) == IF n = 0 THEN 1 ELSE n
AddNewListener(n) == n + 1

\* the listeners registered without looking at data-listeners-setup
setupPresentationEventListenersEveryOpen(l, setup, enabled) ==
    [l EXCEPT !.closeClick = AddSameListener(@),
              !.toggleClick = AddSameListener(@),
              !.fullscreenClick = IF enabled THEN AddSameListener(@) ELSE @,
              !.fullscreenLabel = IF enabled THEN AddNewListener(@) ELSE @]

\* setupPresentationEventListeners: nothing once data-listeners-setup is
\* set; else the click listeners of the close and toggle buttons and, where
\* the Fullscreen API is enabled, the click listener of the fullscreen
\* button and the fullscreenchange listener of its label
setupPresentationEventListeners(l, setup, enabled) ==
    IF setup THEN l
    ELSE [l EXCEPT !.closeClick = AddSameListener(@),
                   !.toggleClick = AddSameListener(@),
                   !.fullscreenClick = IF enabled THEN AddSameListener(@) ELSE @,
                   !.fullscreenLabel = IF enabled THEN AddNewListener(@) ELSE @]

\* removePresentationResizeHandler: the handler the global holds is taken
\* off resize and fullscreenchange
removePresentationResizeHandler(l, handler) ==
    IF handler THEN [l EXCEPT !.resize = @ - 1] ELSE l

\* setupPresentationResizeHandler: the old handler removed, a new closure
\* registered on resize and on fullscreenchange
setupPresentationResizeHandler(l, handler) ==
    [removePresentationResizeHandler(l, handler) EXCEPT
        !.resize = AddNewListener(@)]

\* removePresentationKeyboardShortcuts
removePresentationKeyboardShortcuts(l, handler) ==
    IF handler THEN [l EXCEPT !.keydown = @ - 1] ELSE l

\* the keyboard handler registered without removing the one before
setupPresentationKeyboardShortcutsKeeping(l, handler) ==
    [l EXCEPT !.keydown = AddNewListener(@)]

\* setupPresentationKeyboardShortcuts: the old handler removed, a new one
\* registered on keydown
setupPresentationKeyboardShortcuts(l, handler) ==
    [removePresentationKeyboardShortcuts(l, handler) EXCEPT
        !.keydown = AddNewListener(@)]

\* the click listeners of #helpBtn told apart: with MaxHelpListeners of them
\* or more, a click calls toggleHelpTooltip that many times, and every call
\* after the first finds the tooltip displayed and hides it
MaxHelpListeners == 2

\* setupHelpTooltip: one more anonymous click listener on #helpBtn
setupHelpTooltip(l) ==
    [l EXCEPT !.helpClick = Min(MaxHelpListeners, AddNewListener(@))]

\* removeHelpTooltip: the click-outside handler removed, the tooltip hidden
\* at once; the click listener of #helpBtn stays
removeHelpTooltip(tooltip) ==
    [display |-> "none", fadeOut |-> FALSE, clickHandler |-> FALSE]

\* the hide callbacks that may be pending at once
MaxHelpTimers == 2

\* showHelpTooltip: fade-out removed, the tooltip displayed,
\* setupClickOutsideHandler
showHelpTooltip(h) ==
    [tooltip |-> [display |-> "block", fadeOut |-> FALSE, clickHandler |-> TRUE],
     timers |-> h.timers]

\* hideHelpTooltip: fade-out added, the tooltip still displayed until the
\* callback of 200 ms runs, removeClickOutsideHandler
hideHelpTooltip(h) ==
    [tooltip |-> [h.tooltip EXCEPT !.fadeOut = TRUE, !.clickHandler = FALSE],
     timers |-> h.timers + 1]

\* toggleHelpTooltip: visible is style.display !== 'none'
toggleHelpTooltip(h) ==
    IF h.tooltip.display # "none" THEN hideHelpTooltip(h)
    ELSE showHelpTooltip(h)

RECURSIVE toggleHelpTooltipTimes(_, _)
\* the click listeners of #helpBtn, one call of toggleHelpTooltip each
toggleHelpTooltipTimes(k, h) ==
    IF k = 0 THEN h ELSE toggleHelpTooltipTimes(k - 1, toggleHelpTooltip(h))

\* a click that reaches the document: helpTooltipClickOutsideHandler, while it
\* is registered, hides the tooltip
DocumentClick ==
    IF helpTooltip.clickHandler
    THEN LET h == hideHelpTooltip([tooltip |-> helpTooltip,
                                   timers |-> helpTimers])
         IN  /\ helpTimers < MaxHelpTimers
             /\ helpTooltip' = h.tooltip
             /\ helpTimers' = h.timers
    ELSE UNCHANGED <<helpTooltip, helpTimers>>

\* openPresentationMode, for the questions that currentQuestions holds
OpenPresentationMode(questions) ==
    IF Len(questions) = 0
    THEN UNCHANGED <<presentationVars, resizeVars, fullscreenVars,
                     listeners, presentationKeyboardHandler>>
    ELSE /\ overlayDisplay' = "flex"
         /\ presentationAnswersVisible' = FALSE
         /\ toggleAnswersText' = updateAnswersToggleButton(FALSE)
         \* setupPresentationEventListeners, ResizeHandler,
         \* KeyboardShortcuts and setupHelpTooltip
         /\ listeners' =
                setupHelpTooltip(
                  setupPresentationKeyboardShortcuts(
                    setupPresentationResizeHandler(
                      setupPresentationEventListeners(listeners, listenersSetup,
                                                      fullscreenEnabled),
                      presentationResizeHandler),
                    presentationKeyboardHandler))
         /\ presentationKeyboardHandler' = TRUE
         /\ listenersSetup' = TRUE
         /\ fullscreenBtn' =
                IF ~listenersSetup /\ ~fullscreenEnabled
                THEN [fullscreenBtn EXCEPT !.display = "none"]
                ELSE fullscreenBtn
         \* setupPresentationResizeHandler: a new closure, its resizeTimeout
         \* undefined; the timer of the handler it replaces stays pending
         /\ presentationResizeHandler' = TRUE
         /\ resizeTimeout' = 0
         /\ sinceResize' = IF overlayDisplay = "none" THEN DebounceMs
                            ELSE sinceResize
         /\ burst' = IF overlayDisplay = "none" THEN NoBurst ELSE burst
         /\ bodyOverflow' = "hidden"
         /\ UNCHANGED <<timers, fullscreenEnabled, fullscreenElement,
                        fullscreenPromises>>
         \* renderPresentationWorksheet(currentQuestions, false)
         /\ presentationList' = renderPresentationWorksheet(questions, FALSE)
         /\ presentationLayout' =
                updatePresentationLayout("flex", questions, innerHeight,
                                         presentationLayout)

\* the slider values and the table selections the page starts from
SliderValues ==
    {<<>>, <<"0">>, <<"2">>, <<"1", "0">>, <<"1", "0", "0">>}
StartTables == {{3}}
\* the checkboxes the user clicks
ClickedTables == {3}
ViewportHeights == {600, 800}

InitPageWith(values, tableSets, heights, fullscreen) ==
    /\ pc = "app"
    /\ questionCount = 0
    /\ question = NoValue
    /\ answerText = <<>>
    /\ layout = NoValue
    /\ splitLines = NoValue
    /\ pdfPages = <<>>
    /\ presentationLayout = NoValue
    /\ innerHeight \in heights
    /\ numQuestionsValue \in values
    /\ numQuestionsValueDisplay = numQuestionsValue
    /\ \E S \in tableSets :
          /\ selectedTables = InDomOrder(S)
          /\ checkedLabels = S
    /\ includeDivision \in BOOLEAN
    /\ errors = [numQuestionsError |-> "", tablesError |-> ""]
    /\ currentQuestions = <<>>
    /\ questionsList = <<>>
    /\ answersList = <<>>
    /\ calls = NoValue
    /\ overlayDisplay = "none"
    /\ presentationAnswersVisible = FALSE
    /\ presentationList = <<>>
    /\ toggleAnswersText = "Show answers"
    /\ bodyOverflow = ""
    /\ listenersSetup = FALSE
    /\ presentationResizeHandler = FALSE
    /\ resizeTimeout = 0
    /\ timers = {}
    /\ sinceResize = DebounceMs
    /\ burst = NoBurst
    /\ fullscreenEnabled \in fullscreen
    /\ fullscreenElement = FALSE
    /\ fullscreenBtn = [display |-> "", textContent |-> "Go full screen"]
    /\ fullscreenPromises = {}
    /\ listeners = NoListeners
    /\ presentationKeyboardHandler = FALSE
    /\ helpTooltip = HiddenTooltip
    /\ helpTimers = 0
    /\ presetApplied = {}
    /\ presetTimers = 0

\* the page with the form as the user left it, before the first click on
\* a button
InitPage == InitPageWith(SliderValues, StartTables, {800}, {TRUE})

\* the slider's input listener
InputNumQuestions ==
    /\ pc = "app"
    /\ \E value \in SliderValues :
          /\ value # numQuestionsValue
          /\ numQuestionsValue' = value
          /\ numQuestionsValueDisplay' = value
    /\ UNCHANGED <<innerHeight, selectedTables, includeDivision, checkedLabels,
                   callVars, worksheetVars, presentationVars, resizeVars,
                   fullscreenVars, pc, presetVars, listenerVars>>

\* a click on the checkbox of one of the tables, and its change listener
ChangeTableOf(tables) ==
    /\ pc = "app"
    /\ \E t \in tables :
          LET checked == {selectedTables[i] : i \in 1..Len(selectedTables)}
              after == IF t \in checked THEN checked \ {t} ELSE checked \cup {t}
          IN  /\ selectedTables' = InDomOrder(after)
              /\ checkedLabels' = IF t \in after THEN checkedLabels \cup {t}
                                  ELSE checkedLabels \ {t}
    /\ UNCHANGED <<innerHeight, numQuestionsValue, numQuestionsValueDisplay,
                   includeDivision, callVars, worksheetVars, presentationVars,
                   resizeVars, fullscreenVars, pc, presetVars, listenerVars>>

ChangeTable == ChangeTableOf(ClickedTables)

\* a click on the includeDivision checkbox
ChangeIncludeDivision ==
    /\ pc = "app"
    /\ includeDivision' = ~includeDivision
    /\ UNCHANGED <<innerHeight, numQuestionsValue, numQuestionsValueDisplay,
                   selectedTables, checkedLabels, callVars, worksheetVars,
                   presentationVars, resizeVars, fullscreenVars, pc,
                   presetVars, listenerVars>>

\* handleGenerate: generateWorksheet, then openPresentationMode when
\* currentQuestions is not empty
HandleGenerate ==
    /\ pc = "app"
    /\ UNCHANGED <<innerHeight, formVars, callVars, splitLines, pdfPages, pc>>
    /\ DocumentClick
    /\ LET valid == validateInputs(numQuestionsValue, selectedTables)
           numQuestions == parseInt(numQuestionsValue).value
       IN  /\ errors' = valid.errors
           /\ IF valid.isValid
              THEN \E seed \in 0..(RandomSeeds - 1) :
                      LET generated == generateQuestions(numQuestions,
                                           selectedTables, includeDivision, seed)
                      IN  /\ currentQuestions' =
                                 resetAndPushQuestions(currentQuestions, generated)
                          /\ OpenPresentationMode(currentQuestions')
                          /\ questionsList' = renderWorksheet(currentQuestions')
                          /\ answersList' = renderAnswers(currentQuestions')
                          /\ layout' = calculateOptimalLayout(Len(currentQuestions'))
                          /\ calls' =
                               [handler |-> "handleGenerate",
                                generateQuestion |-> numQuestions,
                                calculateOptimalLayout |->
                                    {Len(currentQuestions')},
                                calculatePresentationLayout |->
                                    {Len(currentQuestions')} \ {0},
                                save |-> 0]
              ELSE /\ UNCHANGED <<currentQuestions, questionsList, answersList,
                                  layout>>
                   /\ OpenPresentationMode(currentQuestions)
                   /\ calls' =
                        [handler |-> "handleGenerate",
                         generateQuestion |-> 0,
                         calculateOptimalLayout |-> {},
                         calculatePresentationLayout |->
                             {Len(currentQuestions)} \ {0},
                         save |-> 0]

\* handleDownload: fresh questions, rendered, and handed to
\* downloadWorksheetPdf, which saves the document (calls.save); the pages it
\* paints are those of DownloadWorksheetPdf above
HandleDownload ==
    /\ pc = "app"
    /\ LET valid == validateInputs(numQuestionsValue, selectedTables)
           numQuestions == parseInt(numQuestionsValue).value
       IN  /\ errors' = valid.errors
           /\ IF valid.isValid
              THEN \E seed \in 0..(RandomSeeds - 1) :
                      LET pdfQuestions == generateQuestions(numQuestions,
                                              selectedTables, includeDivision,
                                              seed)
                      IN  /\ currentQuestions' = pdfQuestions
                          /\ questionsList' = renderWorksheet(currentQuestions')
                          /\ answersList' = renderAnswers(currentQuestions')
                          /\ layout' = calculateOptimalLayout(Len(currentQuestions'))
                          /\ calls' =
                               [handler |-> "handleDownload",
                                generateQuestion |-> numQuestions,
                                calculateOptimalLayout |->
                                    {Len(currentQuestions')},
                                calculatePresentationLayout |-> {},
                                save |-> 1]
              ELSE /\ UNCHANGED <<currentQuestions, questionsList, answersList,
                                  layout>>
                   /\ calls' =
                        [handler |-> "handleDownload",
                         generateQuestion |-> 0,
                         calculateOptimalLayout |-> {},
                         calculatePresentationLayout |-> {},
                         save |-> 0]
    /\ DocumentClick
    /\ UNCHANGED <<innerHeight, formVars, callVars, splitLines, pdfPages,
                   presentationVars, resizeVars, fullscreenVars, pc, listeners,
                   presentationKeyboardHandler>>

(***************************************************************************)
(* Presentation mode: close, toggle answers, fullscreen, and the debounced *)
(* resize handler.  Time passes in Tick steps; a timer whose delay has     *)
(* passed stays pending until its callback runs (TimerFires), and other    *)
(* events may be handled before it.                                        *)
(***************************************************************************)
\* the timers that may be pending at once
MaxPendingTimers == 2

\* presentationResizeHandler(): clearTimeout(resizeTimeout), then a new timer
\* of DebounceMs whose id resizeTimeout keeps
ResizeHandlerRuns ==
    /\ Cardinality({t \in timers : t.id # resizeTimeout}) < MaxPendingTimers
    /\ timers' = {t \in timers : t.id # resizeTimeout}
                 \cup {[id |-> FreshTimer, remaining |-> DebounceMs]}
    /\ resizeTimeout' = FreshTimer
    /\ sinceResize' = 0
    /\ burst' = IF sinceResize >= DebounceMs
                THEN [events |-> 1, calls |-> 0]
                ELSE [burst EXCEPT !.events = Min(BurstCap, @ + 1)]
    /\ UNCHANGED presentationResizeHandler

\* the listeners of resize and of fullscreenchange that the page has
\* registered through setupPresentationResizeHandler
ResizeListeners ==
    IF listeners.resize > 0 THEN ResizeHandlerRuns ELSE UNCHANGED resizeVars

\* the fullscreenchange listener that relabels the button
labelAfterFullscreenChange(element) ==
    IF listeners.fullscreenLabel > 0
    THEN IF element THEN "Exit full screen" ELSE "Go full screen"
    ELSE fullscreenBtn.textContent

\* the window is resized
WindowResize ==
    /\ pc = "app"
    /\ innerHeight' \in ViewportHeights
    /\ ResizeListeners
    /\ UNCHANGED <<formVars, callVars, worksheetVars, presentationVars,
                   fullscreenVars, pc, listenerVars>>

\* closePresentationMode, called by the close button's click listener or for
\* the Escape key
ClosePresentationMode ==
    /\ pc = "app"
    /\ overlayDisplay # "none"
    /\ overlayDisplay' = "none"
    /\ bodyOverflow' = ""
    \* removePresentationResizeHandler: the closure's timer stays pending
    /\ presentationResizeHandler' = FALSE
    /\ resizeTimeout' = 0
    /\ sinceResize' = DebounceMs
    /\ burst' = NoBurst
    \* removePresentationKeyboardShortcuts, removeHelpTooltip
    /\ listeners' =
           removePresentationKeyboardShortcuts(
               removePresentationResizeHandler(listeners,
                                               presentationResizeHandler),
               presentationKeyboardHandler)
    /\ presentationKeyboardHandler' = FALSE
    /\ helpTooltip' = removeHelpTooltip(helpTooltip)
    /\ UNCHANGED helpTimers
    /\ fullscreenPromises' = IF fullscreenElement
                             THEN fullscreenPromises \cup {"closeExit"}
                             ELSE fullscreenPromises
    /\ UNCHANGED <<innerHeight, formVars, callVars, worksheetVars,
                   presentationAnswersVisible, presentationList,
                   toggleAnswersText, listenersSetup, presentationLayout,
                   timers, fullscreenEnabled, fullscreenElement, fullscreenBtn,
                   pc>>

\* togglePresentationAnswers, called by the toggle button's click listener
\* or for the A key, while the help tooltip is hidden
TogglePresentationAnswers ==
    /\ pc = "app"
    /\ overlayDisplay # "none"
    /\ presentationAnswersVisible' = ~presentationAnswersVisible
    /\ presentationList' =
           renderPresentationWorksheet(currentQuestions,
                                       ~presentationAnswersVisible)
    /\ presentationLayout' =
           updatePresentationLayout(overlayDisplay, currentQuestions,
                                    innerHeight, presentationLayout)
    /\ toggleAnswersText' = updateAnswersToggleButton(presentationAnswersVisible')
    /\ UNCHANGED <<innerHeight, formVars, callVars, worksheetVars,
                   overlayDisplay, bodyOverflow, listenersSetup, resizeVars,
                   fullscreenVars, pc, listenerVars>>

\* toggleFullscreen, from the F key or, where the Fullscreen API is enabled
\* and the button is shown, from the fullscreen button: the request is
\* pending
ToggleFullscreen ==
    /\ pc = "app"
    /\ overlayDisplay # "none"
    /\ fullscreenPromises' =
           fullscreenPromises
           \cup {IF ~fullscreenElement THEN "request" ELSE "exit"}
    /\ UNCHANGED <<innerHeight, formVars, callVars, worksheetVars,
                   presentationVars, resizeVars, fullscreenEnabled,
                   fullscreenElement, fullscreenBtn, pc, listenerVars>>

\* what is left pending once a promise of a kind has settled: other promises
\* of that kind may be pending from earlier clicks
StillPending(kind) == {fullscreenPromises, fullscreenPromises \ {kind}}

\* requestFullscreen() is fulfilled: fullscreenchange, then the then-callback
RequestFullscreenFulfilled ==
    /\ pc = "app"
    /\ "request" \in fullscreenPromises
    /\ fullscreenEnabled
    /\ fullscreenPromises' \in StillPending("request")
    /\ fullscreenElement' = TRUE
    /\ IF ~fullscreenElement THEN ResizeListeners ELSE UNCHANGED resizeVars
    /\ fullscreenBtn' = [fullscreenBtn EXCEPT !.textContent = "Exit full screen"]
    /\ UNCHANGED <<innerHeight, formVars, callVars, worksheetVars,
                   presentationVars, fullscreenEnabled, pc, listenerVars>>

\* a catch-callback that gives up the presentation as well
RequestFullscreenRejectedCloses ==
    /\ pc = "app"
    /\ "request" \in fullscreenPromises
    /\ fullscreenPromises' \in {fullscreenPromises,
                                fullscreenPromises \ {"request"}}
    /\ fullscreenBtn' = [fullscreenBtn EXCEPT !.display = "none"]
    /\ overlayDisplay' = "none"
    /\ UNCHANGED <<innerHeight, formVars, callVars, worksheetVars,
                   presentationAnswersVisible, presentationList,
                   toggleAnswersText, bodyOverflow, listenersSetup,
                   presentationLayout, resizeVars, fullscreenEnabled,
                   fullscreenElement, pc, listenerVars>>

\* requestFullscreen() is rejected: the catch-callback hides the button
RequestFullscreenRejected ==
    /\ pc = "app"
    /\ "request" \in fullscreenPromises
    /\ fullscreenPromises' \in StillPending("request")
    /\ fullscreenBtn' = [fullscreenBtn EXCEPT !.display = "none"]
    /\ UNCHANGED <<innerHeight, formVars, callVars, worksheetVars,
                   presentationVars, resizeVars, fullscreenEnabled,
                   fullscreenElement, pc, listenerVars>>

\* exitFullscreen() is fulfilled: fullscreenchange, then the then-callback
\* of toggleFullscreen (closePresentationMode has none)
ExitFullscreenFulfilled ==
    /\ pc = "app"
    /\ fullscreenElement
    /\ \E kind \in {"exit", "closeExit"} \cap fullscreenPromises :
          /\ fullscreenPromises' \in StillPending(kind)
          /\ fullscreenBtn' =
                [fullscreenBtn EXCEPT !.textContent =
                    IF kind = "exit" THEN "Go full screen"
                    ELSE labelAfterFullscreenChange(FALSE)]
    /\ fullscreenElement' = FALSE
    /\ ResizeListeners
    /\ UNCHANGED <<innerHeight, formVars, callVars, worksheetVars,
                   presentationVars, fullscreenEnabled, pc, listenerVars>>

\* exitFullscreen() is rejected: both catch-callbacks ignore it
ExitFullscreenRejected ==
    /\ pc = "app"
    /\ \E kind \in {"exit", "closeExit"} \cap fullscreenPromises :
          fullscreenPromises' \in StillPending(kind)
    /\ UNCHANGED <<innerHeight, formVars, callVars, worksheetVars,
                   presentationVars, resizeVars, fullscreenEnabled,
                   fullscreenElement, fullscreenBtn, pc, listenerVars>>

\* the user leaves fullscreen with the browser's own key: fullscreenchange
UserLeavesFullscreen ==
    /\ pc = "app"
    /\ fullscreenElement
    /\ fullscreenElement' = FALSE
    /\ fullscreenBtn' = [fullscreenBtn EXCEPT
                            !.textContent = labelAfterFullscreenChange(FALSE)]
    /\ ResizeListeners
    /\ UNCHANGED <<innerHeight, formVars, callVars, worksheetVars,
                   presentationVars, fullscreenEnabled, fullscreenPromises, pc, listenerVars>>

\* time passes, up to the next timer that is due
Tick ==
    /\ pc = "app"
    /\ \A t \in timers : t.remaining > 0
    /\ LET step == IF timers = {} THEN TickMs
                   ELSE Min(TickMs,
                            CHOOSE r \in {t.remaining : t \in timers} :
                                \A t \in timers : r <= t.remaining)
       IN  /\ timers' = {[t EXCEPT !.remaining = @ - step] : t \in timers}
           /\ sinceResize' = Min(DebounceMs, sinceResize + step)
    /\ UNCHANGED <<innerHeight, formVars, callVars, worksheetVars,
                   presentationVars, fullscreenVars, presentationResizeHandler,
                   resizeTimeout, burst, pc, listenerVars>>

\* the callback of a timer of a resize handler runs
TimerFires ==
    /\ pc = "app"
    /\ \E t \in timers :
          /\ t.remaining = 0
          /\ timers' = timers \ {t}
          /\ presentationLayout' =
                IF overlayDisplay # "none"
                THEN updatePresentationLayout(overlayDisplay, currentQuestions,
                                              innerHeight, presentationLayout)
                ELSE presentationLayout
          /\ burst' =
                IF overlayDisplay = "none" \/ Len(currentQuestions) = 0
                THEN burst
                ELSE [burst EXCEPT !.calls = Min(BurstCap, @ + 1)]
    /\ UNCHANGED <<innerHeight, formVars, callVars, worksheetVars,
                   overlayDisplay, presentationAnswersVisible, presentationList,
                   toggleAnswersText, bodyOverflow, listenersSetup,
                   fullscreenVars, presentationResizeHandler, resizeTimeout,
                   sinceResize, pc, listenerVars>>

(***************************************************************************)
(* The listeners of presentation mode: a click runs every click listener   *)
(* registered on the button, a key press every registered keydown handler. *)
(***************************************************************************)
\* togglePresentationAnswers called k times in a row
RunTogglePresentationAnswers(k) ==
    /\ pc = "app"
    /\ LET visible == IF k % 2 = 1 THEN ~presentationAnswersVisible
                      ELSE presentationAnswersVisible
       IN  /\ presentationAnswersVisible' = visible
           /\ presentationList' =
                  renderPresentationWorksheet(currentQuestions, visible)
           /\ toggleAnswersText' = updateAnswersToggleButton(visible)
    /\ presentationLayout' =
           updatePresentationLayout(overlayDisplay, currentQuestions,
                                    innerHeight, presentationLayout)
    /\ UNCHANGED <<innerHeight, formVars, callVars, worksheetVars,
                   overlayDisplay, bodyOverflow, listenersSetup, resizeVars,
                   fullscreenVars, pc, listeners, presentationKeyboardHandler>>

\* a click on #toggleAnswersBtn
ClickToggleAnswers ==
    /\ overlayDisplay # "none"
    /\ listeners.toggleClick > 0
    /\ RunTogglePresentationAnswers(listeners.toggleClick)
    /\ DocumentClick

\* a click on #closePresentationBtn: removeHelpTooltip takes the
\* click-outside handler off the document before the click reaches it
ClickClosePresentation ==
    /\ listeners.closeClick > 0
    /\ ClosePresentationMode

\* a click on #fullscreenBtn while it is shown
ClickFullscreen ==
    /\ pc = "app"
    /\ overlayDisplay # "none"
    /\ listeners.fullscreenClick > 0
    /\ fullscreenBtn.display # "none"
    /\ fullscreenPromises' =
           fullscreenPromises
           \cup {IF ~fullscreenElement THEN "request" ELSE "exit"}
    /\ DocumentClick
    /\ UNCHANGED <<innerHeight, formVars, callVars, worksheetVars,
                   presentationVars, resizeVars, fullscreenEnabled,
                   fullscreenElement, fullscreenBtn, pc, listeners,
                   presentationKeyboardHandler>>

\* the keys of the switch in presentationKeyboardHandler
ShortcutKeys == {"a", "f", "escape"}

\* a key pressed outside an input field: every registered keydown handler
\* runs, and returns at once unless the overlay is displayed
PresentationKeyDown ==
    /\ listeners.keydown > 0
    /\ overlayDisplay # "none"
    /\ \E key \in ShortcutKeys :
          CASE key = "a" ->
                   /\ RunTogglePresentationAnswers(listeners.keydown)
                   /\ UNCHANGED <<helpTooltip, helpTimers>>
            [] key = "f" -> ToggleFullscreen
            [] key = "escape" -> ClosePresentationMode

\* a click on #helpBtn: its click listeners stop the propagation and call
\* toggleHelpTooltip
ClickHelp ==
    /\ pc = "app"
    /\ overlayDisplay # "none"
    /\ listeners.helpClick > 0
    /\ LET h == toggleHelpTooltipTimes(listeners.helpClick,
                                       [tooltip |-> helpTooltip,
                                        timers |-> helpTimers])
       IN  /\ h.timers <= MaxHelpTimers
           /\ helpTooltip' = h.tooltip
           /\ helpTimers' = h.timers
    /\ UNCHANGED <<innerHeight, formVars, callVars, worksheetVars,
                   presentationVars, resizeVars, fullscreenVars, pc, listeners,
                   presentationKeyboardHandler>>

\* a click inside the overlay, outside the tooltip and the buttons
ClickOutsideHelpTooltip ==
    /\ pc = "app"
    /\ overlayDisplay # "none"
    /\ helpTooltip.clickHandler
    /\ DocumentClick
    /\ UNCHANGED <<innerHeight, formVars, callVars, worksheetVars,
                   presentationVars, resizeVars, fullscreenVars, pc, listeners,
                   presentationKeyboardHandler>>

\* a callback of hideHelpTooltip runs, 200 ms after the call: the tooltip is
\* no longer displayed, whatever has shown it since
HelpTimerFires ==
    /\ pc = "app"
    /\ helpTimers > 0
    /\ helpTimers' = helpTimers - 1
    /\ helpTooltip' = [helpTooltip EXCEPT !.display = "none", !.fadeOut = FALSE]
    /\ UNCHANGED <<innerHeight, formVars, callVars, worksheetVars,
                   presentationVars, resizeVars, fullscreenVars, pc, listeners,
                   presentationKeyboardHandler>>

\* the form and the two buttons of the page
NextSession ==
    \/ InputNumQuestions
    \/ ChangeTable
    \/ HandleGenerate
    \/ HandleDownload
    \/ ClosePresentationMode

SpecSession == InitPage /\ [][NextSession]_vars

NextPage ==
    \/ InputNumQuestions
    \/ ChangeTable
    \/ ChangeIncludeDivision
    \/ HandleGenerate
    \/ HandleDownload
    \/ ClosePresentationMode
    \/ TogglePresentationAnswers
    \/ ToggleFullscreen
    \/ RequestFullscreenFulfilled
    \/ RequestFullscreenRejected
    \/ ExitFullscreenFulfilled
    \/ ExitFullscreenRejected
    \/ UserLeavesFullscreen
    \/ WindowResize
    \/ Tick
    \/ TimerFires

SpecPage == InitPage /\ [][NextPage]_vars

\* the overlay, the window's resize events and the timers: time passes and
\* a callback that is due runs
ResizeCounts == {<<"2">>, <<"1", "0">>}

InitResize ==
    /\ InitPageWith(ResizeCounts, StartTables, ViewportHeights, {TRUE})
    /\ ~includeDivision

NextResize ==
    \/ HandleGenerate
    \/ ClosePresentationMode
    \/ TogglePresentationAnswers
    \/ WindowResize
    \/ Tick
    \/ TimerFires

\* a callback is due
TimerDue == \E t \in timers : t.remaining = 0

\* Time passes, and a callback that is due runs in the end.  A callback can
\* run exactly when one is due, and running it removes its timer, so the
\* last conjunct is weak fairness of TimerFires, with its enabling condition
\* written out.
SpecResize ==
    /\ InitResize
    /\ [][NextResize]_vars
    /\ WF_vars(Tick)
    /\ ([]<>(~TimerDue) \/ []<><<TimerFires>>_vars)

\* the overlay and the Fullscreen API, enabled or not
InitFullscreen ==
    /\ InitPageWith({<<"2">>}, StartTables, {800}, BOOLEAN)
    /\ ~includeDivision

NextFullscreen ==
    \/ HandleGenerate
    \/ ClosePresentationMode
    \/ TogglePresentationAnswers
    \/ ToggleFullscreen
    \/ RequestFullscreenFulfilled
    \/ RequestFullscreenRejected
    \/ ExitFullscreenFulfilled
    \/ ExitFullscreenRejected
    \/ UserLeavesFullscreen

SpecFullscreen == InitFullscreen /\ [][NextFullscreen]_vars

\* the page in use: generate, download, open, close, toggle and resize, from
\* a valid and from an invalid form
UseCounts == {<<"2">>, <<"1", "0", "0">>}
InitUse ==
    /\ InitPageWith(UseCounts, StartTables, {800}, {TRUE})
    /\ ~includeDivision

NextUse ==
    \/ ChangeTable
    \/ HandleGenerate
    \/ HandleDownload
    \/ ClickClosePresentation
    \/ ClickToggleAnswers
    \/ WindowResize

SpecUse == InitUse /\ [][NextUse]_vars

(***************************************************************************)
(* The preset buttons of the times-table checkboxes.                       *)
(***************************************************************************)
\* the callbacks of triggerPresetAnimation that may be pending at once
MaxPresetTimers == 2

\* the tables a preset handler checks
PresetTwoToTwelve == 2..12
PresetEasyTables == {2, 5, 10}
PresetTenAndTwenty == {10, 20}
PresetThirteenToTwenty == 13..20

\* the preset's tables checked on top of those already checked
checkPresetKeeping(checked, tables) == checked \cup tables

\* every checkbox unchecked, then the preset's tables checked
checkPreset(checked, tables) == tables

\* a preset handler and its triggerPresetAnimation: the labels of the checked
\* boxes get checkbox-checked and preset-applied, the others lose
\* checkbox-checked, and a callback of 400 ms is started
HandlePreset(tables) ==
    /\ pc = "app"
    /\ presetTimers < MaxPresetTimers
    /\ LET checked == {selectedTables[i] : i \in 1..Len(selectedTables)}
           after == checkPreset(checked, tables)
       IN  /\ selectedTables' = InDomOrder(after)
           /\ checkedLabels' = after
           /\ presetApplied' = presetApplied \cup after
    /\ presetTimers' = presetTimers + 1
    /\ UNCHANGED <<innerHeight, numQuestionsValue, numQuestionsValueDisplay,
                   includeDivision, callVars, worksheetVars, presentationVars,
                   resizeVars, fullscreenVars, pc, listenerVars>>

HandlePresetTwoToTwelve == HandlePreset(PresetTwoToTwelve)
HandlePresetEasyTables == HandlePreset(PresetEasyTables)
HandlePresetTenAndTwenty == HandlePreset(PresetTenAndTwenty)
HandlePresetThirteenToTwenty == HandlePreset(PresetThirteenToTwenty)

\* handlePresetClearAll: every checkbox unchecked, checkbox-checked removed
\* from every label, no animation
HandlePresetClearAll ==
    /\ pc = "app"
    /\ selectedTables' = <<>>
    /\ checkedLabels' = {}
    /\ UNCHANGED <<innerHeight, numQuestionsValue, numQuestionsValueDisplay,
                   includeDivision, callVars, worksheetVars, presentationVars,
                   resizeVars, fullscreenVars, pc, listenerVars, presetVars>>

\* a callback of triggerPresetAnimation runs: preset-applied is removed from
\* every label
PresetAnimationEnds ==
    /\ pc = "app"
    /\ presetTimers > 0
    /\ presetTimers' = presetTimers - 1
    /\ presetApplied' = {}
    /\ UNCHANGED <<innerHeight, numQuestionsValue, numQuestionsValueDisplay,
                   selectedTables, includeDivision, checkedLabels, callVars,
                   worksheetVars, presentationVars, resizeVars, fullscreenVars,
                   pc, listenerVars>>

\* the checkboxes as createTimesTableCheckboxes leaves them: 2 to 12 checked
DefaultTables == {2..12}
\* the checkboxes the user clicks between the presets
PresetClickedTables == {3, 20}
ChangePresetTable == ChangeTableOf(PresetClickedTables)

InitPresets ==
    /\ InitPageWith({<<"1", "0">>}, DefaultTables, {800}, {TRUE})
    /\ ~includeDivision

NextPresets ==
    \/ ChangePresetTable
    \/ HandlePresetTwoToTwelve
    \/ HandlePresetEasyTables
    \/ HandlePresetTenAndTwenty
    \/ HandlePresetThirteenToTwenty
    \/ HandlePresetClearAll
    \/ PresetAnimationEnds

SpecPresets == InitPresets /\ [][NextPresets]_vars

\* presentation mode opened, closed and used through its buttons and keys,
\* with and without the Fullscreen API
ListenerCounts == {<<"2">>, <<"1", "0">>}
InitListeners ==
    /\ InitPageWith(ListenerCounts, StartTables, ViewportHeights, BOOLEAN)
    /\ ~includeDivision

NextListeners ==
    \/ HandleGenerate
    \/ ClickClosePresentation
    \/ ClickToggleAnswers
    \/ ClickFullscreen
    \/ PresentationKeyDown

SpecListeners == InitListeners /\ [][NextListeners]_vars

\* presentation mode opened and closed, and its help button
InitHelp ==
    /\ InitPageWith(ListenerCounts, StartTables, ViewportHeights, {TRUE})
    /\ ~includeDivision

NextHelp ==
    \/ HandleGenerate
    \/ ClickClosePresentation
    \/ ClickToggleAnswers
    \/ ClickHelp
    \/ ClickOutsideHelpTooltip
    \/ HelpTimerFires

SpecHelp == InitHelp /\ [][NextHelp]_vars

(***************************************************************************)
(* Properties of the form and the two buttons (SpecSession).               *)
(***************************************************************************)
\* the count the slider asks for is not a number, below 1 or above 99
RequestedCountInvalid ==
    LET requested == parseInt(numQuestionsValue)
    IN  requested.isNaN \/ requested.value < 1 \/ requested.value > 99

NoTableSelected == selectedTables = <<>>

\* a click on Present or on Download; neither handler hides the overlay, which
\* tells a click from a close before the handlers are compared
ButtonClicked ==
    /\ overlayDisplay' = "none" => overlayDisplay = "none"
    /\ HandleGenerate \/ HandleDownload

\* C12: when the requested count is non-numeric, below 1 or above 99, or no
\* table is selected, the generate and download actions generate no question
\* and call neither generateQuestion nor a layout function with the invalid
\* input: currentQuestions and the rendered lists are left unchanged, no PDF
\* is produced, and an inline error is set for each failing field (both
\* errors when both fail).  The only layout call left is the one Present
\* makes for the questions of an earlier click.
C12_InvalidInputGeneratesNothing ==
    [][((RequestedCountInvalid \/ NoTableSelected) /\ ButtonClicked) =>
          /\ UNCHANGED <<currentQuestions, questionsList, answersList, layout,
                         pdfPages>>
          /\ calls'.generateQuestion = 0
          /\ calls'.calculateOptimalLayout = {}
          /\ calls'.save = 0
          /\ \A n \in calls'.calculatePresentationLayout :
                n = Len(currentQuestions) /\ n \in 1..MaxQuestions
          /\ (errors'.numQuestionsError # "") <=> RequestedCountInvalid
          /\ (errors'.tablesError # "") <=> NoTableSelected
    ]_vars

\* C12 witness: Download on a form with the count 100 and no table, after an
\* earlier click has generated 10 questions: both errors, the 10 questions
\* still there.
C12_Witness ==
    /\ pc = "app"
    /\ calls # NoValue
    /\ calls.handler = "handleDownload"
    /\ calls.generateQuestion = 0
    /\ numQuestionsValue = <<"1", "0", "0">>
    /\ selectedTables = <<>>
    /\ errors.numQuestionsError # ""
    /\ errors.tablesError # ""
    /\ Len(currentQuestions) = 10

\* C13: after every successful generate or download action with requested
\* count n, currentQuestions holds exactly the n questions generated by that
\* action (a run of generateQuestion on the form's tables and division
\* setting) and none of the previous session's; the rendered lists are those
\* of the new questions.
C13_SessionReplacedWholesale ==
    [][(~RequestedCountInvalid /\ ~NoTableSelected /\ ButtonClicked) =>
          LET n == parseInt(numQuestionsValue).value
          IN  /\ Len(currentQuestions') = n
              /\ \E seed \in 0..(RandomSeeds - 1) :
                    currentQuestions' =
                        generateQuestions(n, selectedTables, includeDivision,
                                          seed)
              /\ questionsList' =
                    [i \in 1..n |-> currentQuestions'[i].questionText]
              /\ Len(answersList') = n
    ]_vars

\* C13 witness: Present generated 10 questions, which the overlay still
\* shows, and a later Download replaced them by 2.
C13_Witness ==
    /\ pc = "app"
    /\ calls # NoValue
    /\ calls.handler = "handleDownload"
    /\ calls.save = 1
    /\ Len(currentQuestions) = 2
    /\ Len(questionsList) = 2
    /\ Len(presentationList) = 10

\* C25: when a Present click fails validation, presentation mode is not
\* opened and nothing is rendered by that click, also when an earlier click
\* has generated questions: the overlay visibility, the rendered lists and
\* the answers-visible flag are left unchanged.
C25_InvalidGenerateOpensNothing ==
    [][((RequestedCountInvalid \/ NoTableSelected) /\ HandleGenerate) =>
          UNCHANGED <<overlayDisplay, questionsList, answersList,
                      presentationList, presentationAnswersVisible>>
    ]_vars

\* C29: in every reachable state currentQuestions holds at most 99 questions
\* and the presentation overlay is visible only while it is not empty; it is
\* empty only before the first successful generate or download: only a
\* successful click makes it non-empty, every click that generated
\* questions has, and nothing empties it again.
C29_QuestionsOncePresentNeverEmpty ==
    /\ [](/\ Len(currentQuestions) \in 0..99
          /\ (overlayDisplay # "none" => Len(currentQuestions) \in 1..99)
          /\ (calls # NoValue /\ calls.generateQuestion > 0) =>
                 Len(currentQuestions) \in 1..99)
    /\ [][/\ currentQuestions # <<>> => currentQuestions' # <<>>
          /\ (currentQuestions = <<>> /\ currentQuestions' # <<>>) =>
                 (~RequestedCountInvalid /\ ~NoTableSelected /\ ButtonClicked)
       ]_vars

\* C29 witness: a Present click that failed validation (no table checked)
\* after an earlier click generated 2 questions: the 2 questions are still
\* there and the overlay shows them.
C29_Witness ==
    /\ pc = "app"
    /\ calls # NoValue
    /\ calls.handler = "handleGenerate"
    /\ calls.generateQuestion = 0
    /\ errors.tablesError # ""
    /\ Len(currentQuestions) = 2
    /\ overlayDisplay # "none"

\* C26: over any sequence of open, resize, close and reopen of presentation
\* mode, at most one debounced layout-recomputation timer is pending at any
\* time, so that no timer scheduled before a close is left to apply a layout
\* after it.
C26_AtMostOneTimerPending ==
    Cardinality(timers) <= 1

(***************************************************************************)
(* Properties of the listeners of presentation mode (SpecListeners).       *)
(***************************************************************************)
\* C21 (as claimed): once presentation mode has been opened, the close,
\* toggle-answers and fullscreen click listeners and the fullscreenchange
\* label listener are each registered exactly once, however often the mode
\* is opened and closed.
C21_AllFourRegisteredOnce ==
    listenersSetup =>
        /\ listeners.closeClick = 1
        /\ listeners.toggleClick = 1
        /\ listeners.fullscreenClick = 1
        /\ listeners.fullscreenLabel = 1

\* C21 (amended): over any sequence of opening and closing, the close and
\* toggle-answers click listeners are registered exactly once, on the first
\* open; the fullscreen click listener and the fullscreenchange label
\* listener are registered exactly once on the first open where the
\* Fullscreen API is enabled and never where it is not; so one click on the
\* toggle-answers button flips the answers-visible flag exactly once.
C21_RegisteredOnceWhereEnabled ==
    /\ [](/\ listeners.closeClick = (IF listenersSetup THEN 1 ELSE 0)
          /\ listeners.toggleClick = (IF listenersSetup THEN 1 ELSE 0)
          /\ listeners.fullscreenClick =
                 (IF listenersSetup /\ fullscreenEnabled THEN 1 ELSE 0)
          /\ listeners.fullscreenLabel =
                 (IF listenersSetup /\ fullscreenEnabled THEN 1 ELSE 0)
          /\ (overlayDisplay # "none" => listenersSetup))
    /\ [][(overlayDisplay # "none" /\ ClickToggleAnswers) =>
             presentationAnswersVisible' = ~presentationAnswersVisible
       ]_vars

\* C21 witness: presentation mode has been opened at least twice (two click
\* listeners on the help button), each of the four listeners is registered
\* once, and a click has made the answers visible.
C21_Witness ==
    /\ overlayDisplay # "none"
    /\ listeners.helpClick = 2
    /\ fullscreenEnabled
    /\ listeners.closeClick = 1
    /\ listeners.toggleClick = 1
    /\ listeners.fullscreenClick = 1
    /\ listeners.fullscreenLabel = 1
    /\ presentationAnswersVisible

\* C22: the debounce handler of resize and fullscreenchange and the keyboard
\* handler (A, F, Escape) are each registered at most once at any time: they
\* are registered by openPresentationMode and removed by
\* closePresentationMode, so each is registered once while presentation
\* mode is open, also after reopening, and not at all while it is closed,
\* when a key press finds no handler that could toggle the answers or the
\* fullscreen.
C22_HandlersRegisteredWhileOpen ==
    /\ listeners.resize <= 1
    /\ listeners.keydown <= 1
    /\ (overlayDisplay # "none" =>
           listeners.resize = 1 /\ listeners.keydown = 1)
    /\ (overlayDisplay = "none" =>
           listeners.resize = 0 /\ listeners.keydown = 0)
    /\ (presentationResizeHandler <=> listeners.resize = 1)
    /\ (presentationKeyboardHandler <=> listeners.keydown = 1)

\* C22 witness: presentation mode was opened, closed and opened again, one
\* handler of each kind is registered, and the A and F keys have made the
\* answers visible and requested the fullscreen.
C22_Witness ==
    /\ overlayDisplay # "none"
    /\ listeners.helpClick = 2
    /\ listeners.resize = 1
    /\ listeners.keydown = 1
    /\ presentationAnswersVisible
    /\ "request" \in fullscreenPromises

\* C23: every openPresentationMode resets the answers-visible flag to false
\* and renders the questions without answers; a click on the toggle button
\* flips the flag and renders the same questions again, so two toggles
\* restore the state; and after every open or toggle the button reads
\* 'Hide answers' exactly when the flag is true and the presentation list
\* shows the answers exactly when the flag is true.
C23_AnswersFollowFlag ==
    /\ [](/\ (toggleAnswersText = "Hide answers") <=> presentationAnswersVisible
          /\ (toggleAnswersText = "Show answers") <=> ~presentationAnswersVisible
          /\ \A i \in 1..Len(presentationList) :
                 (presentationList[i].answer # <<>>) <=> presentationAnswersVisible
          /\ (overlayDisplay # "none" =>
                 presentationList =
                     renderPresentationWorksheet(currentQuestions,
                                                 presentationAnswersVisible)))
    /\ [][/\ (overlayDisplay' # "none" /\ HandleGenerate) =>
                /\ ~presentationAnswersVisible'
                /\ Len(presentationList') = Len(currentQuestions')
                /\ \A i \in 1..Len(presentationList') :
                       presentationList'[i].answer = <<>>
          /\ (overlayDisplay # "none" /\ ClickToggleAnswers) =>
                /\ presentationAnswersVisible' = ~presentationAnswersVisible
                /\ Len(presentationList') = Len(presentationList)
                /\ \A i \in 1..Len(presentationList') :
                       presentationList'[i].text = presentationList[i].text
       ]_vars

\* C23 witness: the overlay is open on 10 questions, a toggle has made the
\* answers visible, the button reads 'Hide answers' and the first item shows
\* its answer.
C23_Witness ==
    /\ overlayDisplay # "none"
    /\ presentationAnswersVisible
    /\ toggleAnswersText = "Hide answers"
    /\ Len(presentationList) = 10
    /\ presentationList[1].answer # <<>>

(***************************************************************************)
(* Properties of the preset buttons (SpecPresets).                         *)
(***************************************************************************)
\* the tables whose checkbox is checked
CheckedTables == {selectedTables[i] : i \in 1..Len(selectedTables)}

\* after the step exactly the tables of the set are checked, in DOM order,
\* and exactly their labels carry the highlight
OnlyChecked(tables) ==
    /\ {selectedTables'[i] : i \in 1..Len(selectedTables')} = tables
    /\ Len(selectedTables') = Cardinality(tables)
    /\ checkedLabels' = tables

\* C24: each preset handler leaves exactly its own table set checked
\* whatever the selection was before ('2-12' gives 2..12, '2, 5, 10 only'
\* gives 2, 5, 10, '10 and 20' gives 10, 20, '13-20' gives 13..20, 'Clear
\* all' gives none), so applying a preset on its own result changes no
\* checkbox and no highlight; and a label carries the checked highlight
\* exactly when its checkbox is checked.
C24_PresetsCheckTheirOwnTables ==
    /\ [](checkedLabels = CheckedTables)
    /\ [][/\ HandlePresetTwoToTwelve => OnlyChecked(2..12)
          /\ HandlePresetEasyTables => OnlyChecked({2, 5, 10})
          /\ HandlePresetTenAndTwenty => OnlyChecked({10, 20})
          /\ HandlePresetThirteenToTwenty => OnlyChecked(13..20)
          /\ HandlePresetClearAll => OnlyChecked({})
          /\ \A tables \in {PresetTwoToTwelve, PresetEasyTables,
                             PresetTenAndTwenty, PresetThirteenToTwenty} :
                (CheckedTables = tables /\ HandlePreset(tables)) =>
                    UNCHANGED <<selectedTables, checkedLabels>>
       ]_vars

\* C24 witness: '2, 5, 10 only' was applied twice in a row, on a selection
\* that had table 3 among others: 2, 5 and 10 are checked and highlighted,
\* and both animations are still running.
C24_Witness ==
    /\ selectedTables = <<2, 5, 10>>
    /\ checkedLabels = {2, 5, 10}
    /\ presetApplied = {2, 5, 10}
    /\ presetTimers = 2

(***************************************************************************)
(* Properties of the help tooltip (SpecHelp).                              *)
(***************************************************************************)
\* the tooltip is displayed and not fading out
HelpTooltipVisible == helpTooltip.display # "none" /\ ~helpTooltip.fadeOut

\* C28: after presentation mode has been opened any number of times, with
\* closes in between, one click on the help button toggles the tooltip
\* exactly once: a click while the tooltip is hidden leaves it visible with
\* no hide under way, and a visible tooltip stays visible until the next
\* hide request, so no callback of an earlier hide takes it away.
C28_HelpClickTogglesOnce ==
    [][/\ (helpTooltip.display = "none" /\ ClickHelp) =>
            /\ helpTooltip'.display # "none"
            /\ ~helpTooltip'.fadeOut
            /\ helpTimers' = helpTimers
       /\ (helpTooltip.display # "none" /\ ~helpTooltip.fadeOut
              /\ HelpTimerFires) =>
            (helpTooltip'.display # "none" /\ ~helpTooltip'.fadeOut)
    ]_vars

(***************************************************************************)
(* Properties of the debounced resize handler (SpecResize).                *)
(***************************************************************************)
PresentationOpen == overlayDisplay # "none"

\* the registered handler has run on an event
HandlerRan == resizeTimeout' # resizeTimeout /\ resizeTimeout' # 0

\* a timer callback has called updatePresentationLayout
LayoutCalled == burst'.calls > burst.calls

\* after the step the burst is over: 150 ms without an event and no
\* callback left to run
BurstIsOver ==
    /\ overlayDisplay' # "none"
    /\ burst'.events > 0
    /\ sinceResize' >= DebounceMs
    /\ timers' = {}

\* C15: while presentation mode is open, every resize or fullscreenchange
\* event cancels the pending layout recomputation and schedules a new one
\* 150 ms after it (the one timer left is the new one), so a burst of events
\* less than 150 ms apart causes exactly one updatePresentationLayout call
\* (never a second one; one once the burst is over), which runs only once
\* 150 ms have passed since the last event.
C15_OneLayoutCallPerBurst ==
    [][/\ (PresentationOpen /\ HandlerRan) =>
              timers' = {[id |-> resizeTimeout', remaining |-> DebounceMs]}
       /\ (PresentationOpen /\ LayoutCalled) =>
              /\ sinceResize >= DebounceMs
              /\ burst'.calls = 1
       /\ BurstIsOver => burst'.calls = 1
    ]_vars

\* the layout that calculatePresentationLayout gives for what the page holds
LayoutApplied ==
    presentationLayout =
        calculatePresentationLayout(Len(currentQuestions), innerHeight)

\* the recomputation that the registered handler has scheduled is pending
RecomputationPending ==
    /\ PresentationOpen
    /\ presentationResizeHandler
    /\ \E t \in timers : t.id = resizeTimeout

\* a content change of the overlay: it has been opened, or its answers
\* have been toggled
\* (every open leaves the new handler without a timer and the clock and the
\* viewport alone: tested first, as it is tested quickly)
ContentChanged ==
    \/ /\ overlayDisplay' # "none"
       /\ resizeTimeout' = 0
       /\ UNCHANGED <<timers, sinceResize, innerHeight>>
       /\ HandleGenerate
    \/ TogglePresentationAnswers

\* after the step the applied layout is the one calculatePresentationLayout
\* gives
LayoutIsApplied ==
    presentationLayout' =
        calculatePresentationLayout(Len(currentQuestions'), innerHeight')

\* C16: while presentation mode stays open the applied layout is recomputed
\* on every content change (open, toggle answers): right after it, it is
\* calculatePresentationLayout of the question count and the viewport
\* height; and once the viewport is resized no more (from some time on the
\* last resize event is always in the past), a scheduled recomputation leads
\* to the applied layout being that of the current count and height, unless
\* the presentation is closed first.
C16_LayoutFollowsContentAndViewport ==
    /\ [][ContentChanged => LayoutIsApplied]_vars
    /\ (<>[](sinceResize > 0)) =>
          (RecomputationPending ~> (LayoutApplied \/ ~PresentationOpen))

\* C16 witness: 10 questions opened at 800 px, the window resized to 600 px,
\* and the callback has applied the layout of 10 questions at 600 px, which
\* is not the one of 800 px.
C16_Witness ==
    /\ pc = "app"
    /\ PresentationOpen
    /\ Len(currentQuestions) = 10
    /\ innerHeight = 600
    /\ burst = [events |-> 1, calls |-> 1]
    /\ timers = {}
    /\ LayoutApplied
    /\ presentationLayout # calculatePresentationLayout(10, 800)

(***************************************************************************)
(* Properties of the fullscreen promises (SpecFullscreen).                 *)
(***************************************************************************)
\* C17: when a fullscreen request is rejected the only effect is that the
\* fullscreen button is hidden: presentation mode stays as it is (open when
\* it was), and currentQuestions, the answers-visible flag, the applied
\* layout and all the rest of the page are unchanged; a rejected exit
\* request changes nothing at all.
C17_RejectionOnlyHidesButton ==
    [][/\ RequestFullscreenRejected =>
              /\ fullscreenBtn' = [fullscreenBtn EXCEPT !.display = "none"]
              /\ UNCHANGED <<overlayDisplay, currentQuestions,
                             presentationAnswersVisible, presentationLayout,
                             presentationList, toggleAnswersText, bodyOverflow,
                             questionsList, answersList, errors,
                             fullscreenElement, resizeVars, formVars>>
       /\ ExitFullscreenRejected =>
              UNCHANGED <<overlayDisplay, currentQuestions,
                          presentationAnswersVisible, presentationLayout,
                          presentationList, toggleAnswersText, bodyOverflow,
                          questionsList, answersList, errors,
                          fullscreenElement, fullscreenBtn, resizeVars,
                          formVars>>
    ]_vars

\* C17 witness: with the Fullscreen API enabled the button is hidden, which
\* only a rejected request does, while the presentation is open and shows
\* its answers.
C17_Witness ==
    /\ pc = "app"
    /\ fullscreenEnabled
    /\ fullscreenBtn.display = "none"
    /\ PresentationOpen
    /\ presentationAnswersVisible
    /\ Len(currentQuestions) = 2
    /\ presentationLayout = calculatePresentationLayout(2, innerHeight)

(***************************************************************************)
(* The Present button on every valid form (SpecGenerate).                  *)
(***************************************************************************)
\* the slider on each count 1..99
ValidCounts == {NumberToString(n) : n \in 1..MaxQuestions}
\* the selections tried: one table, a preset, the two ends, and all tables
GenerateTables == {{3}, {2, 5, 10}, {1, TableCount}, 1..TableCount}

InitGenerate == InitPageWith(ValidCounts, GenerateTables, {800}, {TRUE})

SpecGenerate == InitGenerate /\ [][HandleGenerate]_vars

\* the last click was on Present
Generated == pc = "app" /\ calls # NoValue /\ calls.handler = "handleGenerate"

\* C11: for every non-empty set of selected tables within 1..20 and every
\* valid count n in 1..99, a generate action produces exactly n questions,
\* each with base in the selected set and operand in 1..12; when
\* includeDivision is false every question is a multiplication.
C11_GenerateProducesCount ==
    Generated =>
        LET n == parseInt(numQuestionsValue).value
            tables == {selectedTables[i] : i \in 1..Len(selectedTables)}
        IN  /\ n \in 1..MaxQuestions
            /\ tables # {} /\ tables \subseteq 1..TableCount
            /\ Len(currentQuestions) = n
            /\ calls.generateQuestion = n
            /\ \A i \in 1..Len(currentQuestions) :
                  /\ currentQuestions[i].base \in tables
                  /\ currentQuestions[i].other \in 1..12
                  /\ currentQuestions[i].type \in {"multiplication", "division"}
                  /\ (~includeDivision =>
                         currentQuestions[i].type = "multiplication")

\* C11 witness: tables {2, 5, 10}, count 10, no division: 10 questions, all
\* multiplications.
C11_Witness ==
    /\ Generated
    /\ selectedTables = <<2, 5, 10>>
    /\ numQuestionsValue = <<"1", "0">>
    /\ ~includeDivision
    /\ Len(currentQuestions) = 10
    /\ \A i \in 1..10 : currentQuestions[i].type = "multiplication"
    /\ \E i \in 1..10 : currentQuestions[i].base = 5

(***************************************************************************)
(* All the functions together: any of them applied to any of the inputs    *)
(* it is defined on.                                                       *)
(***************************************************************************)
Init == InitPrint \/ InitPresentation \/ InitQuestion

Next ==
    \/ CalculateOptimalLayout
    \/ DownloadWorksheetPdf
    \/ CalculatePresentationLayout
    \/ GenerateQuestion

Spec == Init /\ [][Next]_vars

QuestionDone == pc = "question"

RECURSIVE SplitOnSpace(_, _)
\* the words of a text, word being the word read so far
SplitOnSpace(text, word) ==
    IF text = <<>> THEN <<word>>
    ELSE IF Head(text) = " " THEN <<word>> \o SplitOnSpace(Tail(text), <<>>)
    ELSE SplitOnSpace(Tail(text), Append(word, Head(text)))

IsNumeral(word) ==
    /\ word # <<>>
    /\ \A i \in 1..Len(word) : \E d \in 1..10 : DigitChars[d] = word[i]

RECURSIVE NumeralValue(_)
\* the number a decimal numeral denotes
NumeralValue(word) ==
    IF word = <<>> THEN 0
    ELSE 10 * NumeralValue(SubSeq(word, 1, Len(word) - 1))
         + ((CHOOSE d \in 1..10 : DigitChars[d] = word[Len(word)]) - 1)

\* the text reads "a op b = c" with numerals a, b, c, and the statement is
\* arithmetically true
TrueStatement(text) ==
    LET words == SplitOnSpace(text, <<>>)
    IN  /\ Len(words) = 5
        /\ IsNumeral(words[1]) /\ IsNumeral(words[3]) /\ IsNumeral(words[5])
        /\ words[4] = <<"=">>
        /\ \/ /\ words[2] = <<"×">>
              /\ NumeralValue(words[1]) * NumeralValue(words[3])
                     = NumeralValue(words[5])
           \/ /\ words[2] = <<"÷">>
              /\ NumeralValue(words[3]) # 0
              /\ NumeralValue(words[3]) * NumeralValue(words[5])
                     = NumeralValue(words[1])

\* C10: for every question generateQuestion produces (any base in 1..20, any
\* operand in 1..12, either kind), the text with answer in place of the blank
\* is a true statement: a multiplication shows base x other and has
\* answer = base * other; a division shows the dividend base * other divided
\* by base and has answer = other.
C10_AnswerCompletesQuestion ==
    QuestionDone =>
        LET words == SplitOnSpace(answerText, <<>>)
        IN  /\ question.base \in 1..20
            /\ question.other \in 1..12
            /\ TrueStatement(answerText)
            /\ answerText =
                   StringReplace(question.questionText, Blank,
                                 NumberToString(question.answer))
            /\ question.type \in {"multiplication", "division"}
            /\ question.type = "multiplication" =>
                  /\ words[2] = <<"×">>
                  /\ NumeralValue(words[1]) = question.base
                  /\ NumeralValue(words[3]) = question.other
                  /\ question.answer = question.base * question.other
            /\ question.type = "division" =>
                  /\ words[2] = <<"÷">>
                  /\ NumeralValue(words[1]) = question.base * question.other
                  /\ NumeralValue(words[3]) = question.base
                  /\ question.answer = question.other

\* C10 witness: the division 240 / 20 with answer 12 has been generated and
\* its answer line reads "240 / 20 = 12".
C10_Witness ==
    /\ QuestionDone
    /\ question.type = "division"
    /\ question.base = 20
    /\ question.other = 12
    /\ answerText = <<"2", "4", "0", " ", "÷", " ", "2", "0", " ", "=", " ", "1", "2">>

====
